---- MODULE Spec2Model ----
(***************************************************************************)
(* geo-checker: the analyze and bulk commands, the analyzer's mode         *)
(* orchestration (analyzer.New, AnalyzeURL, analyzePageData) and the       *)
(* bounded-concurrency batch runner (bulk.Processor.ProcessURLs).          *)
(*                                                                         *)
(* Threads: thread 0 is the main goroutine of the analyze command, which   *)
(* calls AnalyzeURL itself; threads 1..n are the goroutines ProcessURLs    *)
(* starts, one per URL.                                                    *)
(***************************************************************************)
EXTENDS Integers, Sequences, FiniteSets, TLC

VARIABLES
    flags,        \* the command line: cmd, provider, model, output, mode, concurrent
    env,          \* the process environment: CLAUDE_API_KEY, OPENAI_API_KEY
    urls,         \* the URLs of the bulk file (the URL argument of analyze is urls[1])
    mainPc,       \* position of the command's main goroutine
    cfg,          \* the *config.Config shared by the command, the analyzer and the processor
    analyzer,     \* the Analyzer's fields: provider, initError, originalMode
    resolved,     \* cfg.Mode and cfg.LLMProvider as analyzer.New leaves them after auto-resolution
    pc,           \* position of each thread
    loc,          \* each thread's locals: pageData, the (result, err) pair of AnalyzeURL
    calls,        \* per thread: how often AnalyzeURL, ScrapeURL and Provider.Analyze were called
    results,      \* ProcessURLs' output slice
    semaphore,    \* number of tokens in the semaphore channel
    wg,           \* the WaitGroup counter
    spinner,      \* the Analyzer's ui spinner: Suffix, active
    writers,      \* per shared location outside the output slice: the threads that wrote it
    scored        \* a call into the local scorer or a provider constructor: input, output

vars == <<flags, env, urls, mainPc, cfg, analyzer, resolved, pc, loc, calls,
          results, semaphore, wg, spinner, writers, scored>>

\* ------------------------------------------------------------------ bounds

MaxURLs == 2
MaxConcurrent == 2
MaxSections == 3

\* A nil pointer or interface: a record no other value equals.
Nil == [nil |-> TRUE]

\* ------------------------------------------------------------------ strings

HasPrefix(s, prefix) ==
    Len(s) >= Len(prefix) /\ SubSeq(s, 1, Len(prefix)) = prefix

Contains(s, substr) ==
    \E i \in 1..(Len(s) - Len(substr) + 1) : SubSeq(s, i, i + Len(substr) - 1) = substr

IsSpace(c) == c \in {" ", "\t", "\n", "\r"}

RECURSIVE TrimLeft(_)
TrimLeft(s) ==
    IF Len(s) > 0 /\ IsSpace(SubSeq(s, 1, 1)) THEN TrimLeft(SubSeq(s, 2, Len(s))) ELSE s

RECURSIVE TrimRight(_)
TrimRight(s) ==
    IF Len(s) > 0 /\ IsSpace(SubSeq(s, Len(s), Len(s)))
    THEN TrimRight(SubSeq(s, 1, Len(s) - 1)) ELSE s

TrimSpace(s) == TrimRight(TrimLeft(s))

\* ------------------------------------------------------------------ llm package

\* LLMError.Error() of an error built by NewLLMError(type, message, provider).
LLMErrorString(errorType, message, provider) ==
    IF provider # "" THEN "[" \o provider \o "] " \o errorType \o ": " \o message
    ELSE errorType \o ": " \o message

\* A variant of the Claude list that also offers the undated alias.
ClaudeModelsWithAlias ==
    <<"claude-3-5-sonnet-20241022", "claude-3-sonnet", "claude-3-sonnet-20240229",
      "claude-3-opus-20240229", "claude-3-haiku-20240307">>

ClaudeModels ==
    <<"claude-3-5-sonnet-20241022", "claude-3-sonnet-20240229",
      "claude-3-opus-20240229", "claude-3-haiku-20240307">>
OpenAIModels == <<"gpt-4o", "gpt-4o-mini", "gpt-4-turbo", "gpt-4", "gpt-3.5-turbo">>
LocalModels == <<"llama2", "llama3", "codellama", "mistral">>

\* GetAvailableModels: provider -> its models in order; the first one of each
\* list is the one flagged Recommended.
GetAvailableModels ==
    [claude |-> ClaudeModels, openai |-> OpenAIModels, local |-> LocalModels]

Range(seq) == {seq[i] : i \in DOMAIN seq}

\* ValidateModelForProvider: "" for a nil error, else the error text.
ValidateModelForProvider(provider, model) ==
    IF provider \notin DOMAIN GetAvailableModels
    THEN "unsupported provider: " \o provider
    ELSE IF model \in Range(GetAvailableModels[provider]) THEN ""
    ELSE IF provider = "local" THEN ""
    ELSE "unsupported model '" \o model \o "' for provider '" \o provider \o "'"

\* GetRecommendedModel: the Recommended model of the provider, "" when unknown.
GetRecommendedModel(provider) ==
    IF provider \notin DOMAIN GetAvailableModels THEN ""
    ELSE GetAvailableModels[provider][1]

MaxTokens == 4000
\* Temperature 0.7, in tenths.
TemperatureTenths == 7
DefaultMaxTokens == 4000
ClaudeMaxTokens == 8192
OpenAIMaxTokens == 4096
OpenAIMaxTokens16k == 16384
OpenAIMaxTokensTurbo == 8192

ClaudeValidModels ==
    {"claude-3-sonnet-20240229", "claude-3-opus-20240229",
     "claude-3-haiku-20240307", "claude-3-5-sonnet-20241022"}

OpenAIValidModels ==
    {"gpt-4", "gpt-4-turbo", "gpt-4-turbo-preview", "gpt-3.5-turbo",
     "gpt-3.5-turbo-16k", "gpt-4o", "gpt-4o-mini"}

NoProvider(err) == [provider |-> Nil, err |-> err]
Provider(name, model, maxTokens) ==
    [provider |-> [name |-> name, model |-> model, maxTokens |-> maxTokens], err |-> ""]

\* A variant that validates MaxTokens before the model name.
NewClaudeProviderTokensFirst(config) ==
    IF config = Nil
    THEN NoProvider(LLMErrorString("request", "Provider configuration is required", "claude"))
    ELSE IF config.APIKey = ""
    THEN NoProvider(LLMErrorString("authentication",
             "Claude API key is required (set CLAUDE_API_KEY environment variable)", "claude"))
    ELSE IF ~HasPrefix(config.APIKey, "sk-ant-")
    THEN NoProvider(LLMErrorString("authentication",
             "Invalid Claude API key format (should start with 'sk-ant-')", "claude"))
    ELSE LET model == IF config.Model = "" THEN "claude-3-sonnet-20240229" ELSE config.Model
             maxTokens == IF config.MaxTokens = 0 THEN DefaultMaxTokens ELSE config.MaxTokens
         IN IF maxTokens < 1 \/ maxTokens > ClaudeMaxTokens
            THEN NoProvider(LLMErrorString("request",
                     "MaxTokens must be between 1 and 8192 for Claude", "claude"))
            ELSE IF model \notin ClaudeValidModels
            THEN NoProvider(LLMErrorString("model", "Unsupported Claude model: " \o model, "claude"))
            ELSE IF config.Temperature < 0 \/ config.Temperature > 10
            THEN NoProvider(LLMErrorString("request",
                     "Temperature must be between 0 and 1", "claude"))
            ELSE Provider("claude", model, maxTokens)

\* NewClaudeProvider(config): config is Nil or a ProviderConfig
\* [APIKey, Model, MaxTokens, Temperature (tenths)].
NewClaudeProvider(config) ==
    IF config = Nil
    THEN NoProvider(LLMErrorString("request", "Provider configuration is required", "claude"))
    ELSE IF config.APIKey = ""
    THEN NoProvider(LLMErrorString("authentication",
             "Claude API key is required (set CLAUDE_API_KEY environment variable)", "claude"))
    ELSE IF ~HasPrefix(config.APIKey, "sk-ant-")
    THEN NoProvider(LLMErrorString("authentication",
             "Invalid Claude API key format (should start with 'sk-ant-')", "claude"))
    ELSE LET model == IF config.Model = "" THEN "claude-3-sonnet-20240229" ELSE config.Model
             maxTokens == IF config.MaxTokens = 0 THEN DefaultMaxTokens ELSE config.MaxTokens
         IN IF model \notin ClaudeValidModels
            THEN NoProvider(LLMErrorString("model", "Unsupported Claude model: " \o model, "claude"))
            ELSE IF maxTokens < 1 \/ maxTokens > ClaudeMaxTokens
            THEN NoProvider(LLMErrorString("request",
                     "MaxTokens must be between 1 and 8192 for Claude", "claude"))
            ELSE IF config.Temperature < 0 \/ config.Temperature > 10
            THEN NoProvider(LLMErrorString("request",
                     "Temperature must be between 0 and 1", "claude"))
            ELSE Provider("claude", model, maxTokens)

\* NewOpenAIProvider(config).
NewOpenAIProvider(config) ==
    IF config.APIKey = ""
    THEN NoProvider(LLMErrorString("authentication",
             "OpenAI API key is required (set OPENAI_API_KEY environment variable)", "openai"))
    ELSE IF ~HasPrefix(config.APIKey, "sk-")
    THEN NoProvider(LLMErrorString("authentication",
             "Invalid OpenAI API key format (should start with 'sk-')", "openai"))
    ELSE LET model == IF config.Model = "" THEN "gpt-4" ELSE config.Model
             maxTokens == IF config.MaxTokens = 0 THEN DefaultMaxTokens ELSE config.MaxTokens
             maxAllowed == IF Contains(model, "16k") THEN OpenAIMaxTokens16k
                           ELSE IF Contains(model, "turbo") \/ Contains(model, "4o")
                           THEN OpenAIMaxTokensTurbo
                           ELSE OpenAIMaxTokens
         IN IF model \notin OpenAIValidModels
            THEN NoProvider(LLMErrorString("model", "Unsupported OpenAI model: " \o model, "openai"))
            ELSE IF maxTokens < 1 \/ maxTokens > maxAllowed
            THEN NoProvider(LLMErrorString("request",
                     "MaxTokens must be between 1 and " \o ToString(maxAllowed)
                         \o " for model " \o model, "openai"))
            ELSE IF config.Temperature < 0 \/ config.Temperature > 20
            THEN NoProvider(LLMErrorString("request",
                     "Temperature must be between 0 and 2 for OpenAI", "openai"))
            ELSE Provider("openai", model, maxTokens)

\* NewLocalProvider(config): the CLI never sets BaseURL, so it defaults to
\* http://localhost:11434, which parses.
NewLocalProvider(config) ==
    LET model == IF config.Model = "" THEN "llama2" ELSE config.Model
    IN IF TrimSpace(model) = ""
       THEN NoProvider(LLMErrorString("model", "Model name cannot be empty", "local"))
       ELSE IF config.Temperature < 0 \/ config.Temperature > 20
       THEN NoProvider(LLMErrorString("request", "Temperature must be between 0 and 2", "local"))
       ELSE Provider("local", model, config.MaxTokens)

\* NewProvider(providerType, config).
NewProvider(providerType, config) ==
    CASE providerType = "claude" -> NewClaudeProvider(config)
      [] providerType \in {"gpt", "openai"} -> NewOpenAIProvider(config)
      [] providerType = "local" -> NewLocalProvider(config)
      [] OTHER -> NoProvider("unsupported provider: " \o providerType)

\* ------------------------------------------------------------------ analyzer: setup

\* getAPIKey(provider), reading the environment e.
getAPIKey(e, provider) ==
    CASE provider = "claude" -> e.CLAUDE_API_KEY
      [] provider \in {"gpt", "openai"} -> e.OPENAI_API_KEY
      [] OTHER -> ""

\* hasValidAPIKey(provider).
hasValidAPIKey(e, provider) ==
    LET apiKey == getAPIKey(e, provider)
    IN IF apiKey = "" THEN FALSE
       ELSE CASE provider = "claude" -> HasPrefix(apiKey, "sk-ant-")
              [] provider \in {"gpt", "openai"} -> HasPrefix(apiKey, "sk-")
              [] provider = "local" -> TRUE
              [] OTHER -> FALSE

\* A variant of determineOptimalMode that looks at the configured provider only.
determineOptimalModeConfiguredOnly(e, provider) ==
    IF hasValidAPIKey(e, provider) THEN "hybrid" ELSE "local"

\* determineOptimalMode(provider).
determineOptimalMode(e, provider) ==
    IF hasValidAPIKey(e, provider) THEN "hybrid"
    ELSE IF hasValidAPIKey(e, "openai") THEN "hybrid"
    ELSE IF hasValidAPIKey(e, "claude") THEN "hybrid"
    ELSE "local"

\* A variant that leaves the mode as it was asked for.
ResolveAutoSkipped(e, c) == c

\* analyzer.New, first part: the auto-resolution of cfg.Mode and cfg.LLMProvider.
ResolveAuto(e, c) ==
    IF c.Mode = "auto" \/ c.Mode = ""
    THEN LET mode == determineOptimalMode(e, c.LLMProvider)
             provider ==
                 IF mode = "hybrid" /\ ~hasValidAPIKey(e, c.LLMProvider)
                 THEN IF hasValidAPIKey(e, "openai") THEN "openai"
                      ELSE IF hasValidAPIKey(e, "claude") THEN "claude"
                      ELSE c.LLMProvider
                 ELSE c.LLMProvider
         IN [c EXCEPT !.Mode = mode, !.LLMProvider = provider]
    ELSE c

\* What analyzer.New does when the provider's construction failed. The variants:
\* the failure is never fatal; the failure leaves the mode as it was.
OnInitFailureDowngrade(c, err) ==
    [cfg |-> [c EXCEPT !.Mode = "local"], provider |-> Nil, initError |-> ""]
OnInitFailureKeepMode(c, err) ==
    IF c.Mode = "llm"
    THEN [cfg |-> c, provider |-> Nil,
          initError |-> "failed to initialize LLM provider: " \o err]
    ELSE [cfg |-> c, provider |-> Nil, initError |-> ""]
OnInitFailure(c, err) ==
    IF c.Mode = "llm"
    THEN [cfg |-> c, provider |-> Nil,
          initError |-> "failed to initialize LLM provider: " \o err]
    ELSE [cfg |-> [c EXCEPT !.Mode = "local"], provider |-> Nil, initError |-> ""]

\* analyzer.New, second part: the provider's construction for a mode other than local.
\* Gives the config and the Analyzer's provider and initError fields.
InitProvider(e, c) ==
    IF c.Mode # "local"
    THEN LET made == NewProvider(c.LLMProvider,
                         [APIKey |-> getAPIKey(e, c.LLMProvider), Model |-> c.Model,
                          MaxTokens |-> c.MaxTokens, Temperature |-> c.Temperature])
         IN IF made.err # ""
            THEN OnInitFailure(c, made.err)
            ELSE [cfg |-> c, provider |-> made.provider, initError |-> ""]
    ELSE [cfg |-> c, provider |-> Nil, initError |-> ""]

\* analyzer.New(cfg): the config as New leaves it, the Analyzer, and the mode and
\* provider auto-resolution chose.
New(e, c) ==
    LET r == ResolveAuto(e, c)
        p == InitProvider(e, r)
    IN [cfg |-> p.cfg,
        analyzer |-> [provider |-> p.provider, initError |-> p.initError,
                      originalMode |-> c.Mode],
        resolved |-> [Mode |-> r.Mode, LLMProvider |-> r.LLMProvider]]

\* ------------------------------------------------------------------ commands

\* analyzeCmd.RunE / bulkCmd.RunE up to the config: the model after validation and
\* defaulting, or the error the command returns.
SelectModel(provider, model) ==
    LET invalid == IF model # "" /\ provider # ""
                   THEN ValidateModelForProvider(provider, model) ELSE ""
        chosen == IF model = "" THEN GetRecommendedModel(provider) ELSE model
    IN IF invalid # "" THEN [model |-> "", err |-> "model validation failed: " \o invalid]
       ELSE IF chosen = ""
       THEN [model |-> "", err |-> "no default model available for provider: " \o provider]
       ELSE [model |-> chosen, err |-> ""]

\* The config.Config literal the commands build.
MakeConfig(f, model) ==
    [LLMProvider |-> f.provider, Model |-> model, OutputFormat |-> f.output,
     Mode |-> f.mode, Concurrent |-> f.concurrent,
     MaxTokens |-> MaxTokens, Temperature |-> TemperatureTenths]

NoConfig ==
    [LLMProvider |-> "", Model |-> "", OutputFormat |-> "", Mode |-> "", Concurrent |-> 0,
     MaxTokens |-> 0, Temperature |-> 0]
NoAnalyzer == [provider |-> Nil, initError |-> "", originalMode |-> ""]
NoResolved == [Mode |-> "", LLMProvider |-> ""]

\* ------------------------------------------------------------------ score extraction

UpperCase == "ABCDEFGHIJKLMNOPQRSTUVWXYZ"
LowerCase == "abcdefghijklmnopqrstuvwxyz"
Digits == "0123456789"

At(s, i) == IF i >= 1 /\ i <= Len(s) THEN SubSeq(s, i, i) ELSE ""

IndexIn(alphabet, c) ==
    IF \E i \in 1..Len(alphabet) : At(alphabet, i) = c
    THEN CHOOSE i \in 1..Len(alphabet) : At(alphabet, i) = c
    ELSE 0

IsDigit(c) == c # "" /\ IndexIn(Digits, c) > 0

\* The (?i) flag: the patterns are matched against the lower-cased text.
RECURSIVE ToLower(_)
ToLower(s) ==
    IF s = "" THEN ""
    ELSE LET c == At(s, 1)
             k == IndexIn(UpperCase, c)
         IN (IF k > 0 THEN At(LowerCase, k) ELSE c) \o ToLower(SubSeq(s, 2, Len(s)))

\* Is word at position p of s?
WordAt(s, p, word) ==
    p >= 1 /\ p + Len(word) - 1 <= Len(s) /\ SubSeq(s, p, p + Len(word) - 1) = word

\* The position after one of the words at p, or p when none of them is there.
AfterAny(s, p, words) ==
    IF \E w \in words : WordAt(s, p, w)
    THEN p + Len(CHOOSE w \in words : WordAt(s, p, w))
    ELSE p

\* \s*: RE2's \s is [\t\n\f\r ].
RECURSIVE SkipSpace(_, _)
SkipSpace(s, p) == IF IsSpace(At(s, p)) THEN SkipSpace(s, p + 1) ELSE p

\* \d+, greedy: the position after the run of digits starting at p.
RECURSIVE SkipDigits(_, _)
SkipDigits(s, p) == IF IsDigit(At(s, p)) THEN SkipDigits(s, p + 1) ELSE p

\* The capture group (\d+) starting at p, "" when no digit is there.
DigitsAt(s, p) == IF IsDigit(At(s, p)) THEN SubSeq(s, p, SkipDigits(s, p) - 1) ELSE ""

\* (?:overall|total|final)\s*(?:score|rating)?:?\s*(\d+)(?:/100|%)? matched at p:
\* its capture group, "" when the pattern does not match there.
MatchOverallAt(s, p) ==
    LET q1 == AfterAny(s, p, {"overall", "total", "final"})
        q2 == SkipSpace(s, q1)
        q3 == AfterAny(s, q2, {"score", "rating"})
        q4 == IF At(s, q3) = ":" THEN q3 + 1 ELSE q3
        q5 == SkipSpace(s, q4)
    IN IF q1 = p THEN "" ELSE DigitsAt(s, q5)

\* (?:score|rating):?\s*(\d+)(?:/100|%)? matched at p.
MatchScoreAt(s, p) ==
    LET q1 == AfterAny(s, p, {"score", "rating"})
        q2 == IF At(s, q1) = ":" THEN q1 + 1 ELSE q1
        q3 == SkipSpace(s, q2)
    IN IF q1 = p THEN "" ELSE DigitsAt(s, q3)

\* (\d+)(?:/100|%)\s*(?:overall|total|final)? matched at p.
MatchPercentAt(s, p) ==
    LET q == SkipDigits(s, p)
    IN IF q > p /\ (WordAt(s, q, "/100") \/ At(s, q) = "%") THEN SubSeq(s, p, q - 1) ELSE ""

MatchAt(pattern, s, p) ==
    CASE pattern = 1 -> MatchOverallAt(s, p)
      [] pattern = 2 -> MatchScoreAt(s, p)
      [] pattern = 3 -> MatchPercentAt(s, p)

\* re.FindStringSubmatch(content)[1]: the capture of the leftmost match, "" for no match.
FindStringSubmatch(pattern, s) ==
    LET hits == {p \in 1..Len(s) : MatchAt(pattern, s, p) # ""}
    IN IF hits = {} THEN ""
       ELSE MatchAt(pattern, s, CHOOSE p \in hits : \A q \in hits : p <= q)

RECURSIVE StripZeros(_)
StripZeros(d) ==
    IF Len(d) > 1 /\ At(d, 1) = "0" THEN StripZeros(SubSeq(d, 2, Len(d))) ELSE d

RECURSIVE DecimalValue(_)
DecimalValue(d) ==
    IF d = "" THEN 0
    ELSE 10 * DecimalValue(SubSeq(d, 1, Len(d) - 1)) + (IndexIn(Digits, At(d, Len(d))) - 1)

\* strconv.Atoi of a run of digits followed by the range check 0 <= score <= 100:
\* the score, or -1 when it is rejected (any run of more than three significant
\* digits is over 100, or overflows).
ScoreInRange(d) ==
    LET z == StripZeros(d)
    IN IF Len(z) > 3 THEN -1
       ELSE IF DecimalValue(z) <= 100 THEN DecimalValue(z) ELSE -1

\* A variant that tries the patterns from the last to the first.
RECURSIVE ExtractFromLast(_, _)
ExtractFromLast(pattern, s) ==
    IF pattern > 3 THEN 0
    ELSE LET m == FindStringSubmatch(4 - pattern, s)
         IN IF m # "" /\ ScoreInRange(m) >= 0 THEN ScoreInRange(m)
            ELSE ExtractFromLast(pattern + 1, s)

\* extractScoreFromLLMResponse(content): the patterns in order from the given one.
RECURSIVE ExtractFrom(_, _)
ExtractFrom(pattern, s) ==
    IF pattern > 3 THEN 0
    ELSE LET m == FindStringSubmatch(pattern, s)
         IN IF m # "" /\ ScoreInRange(m) >= 0 THEN ScoreInRange(m)
            ELSE ExtractFrom(pattern + 1, s)

extractScoreFromLLMResponse(content) == ExtractFrom(1, ToLower(content))

\* ------------------------------------------------------------------ analyzer: analysis

\* A nil error.
NoError == "<nil error>"

\* What the scraper can hand back for a URL: a fetch error, or the page data. A page
\* is its Content and the overall score LocalScorer.AnalyzeContent gives that content.
ScrapeErrors == {"HTTP error: 404"}
Pages ==
    {[Content |-> " \n ", overall |-> 21],
     [Content |-> "GEO content", overall |-> 29]}
NoPage == [Content |-> "", overall |-> 0]

\* What Scanner.readHTMLFile can hand back for a file: a read error, or the text
\* left of the file, which is empty for a file of tags only. A file's page is that
\* text (its title is the file's name) and the overall score it gets.
ReadErrors == {"open site/page.html: permission denied"}
FilePages ==
    {[Content |-> "", overall |-> 22],
     [Content |-> "GEO content", overall |-> 29]}
FileOutcomes ==
    {[err |-> e, page |-> NoPage] : e \in ReadErrors}
        \cup {[err |-> NoError, page |-> p] : p \in FilePages}
ScrapeOutcomes ==
    {[err |-> e, page |-> NoPage] : e \in ScrapeErrors}
        \cup {[err |-> NoError, page |-> p] : p \in Pages}

\* What Provider.Analyze can hand back for content the provider accepts: an error of
\* the HTTP call, or the text of the reply.
AnalyzeErrors == {"network: connection refused"}
Replies ==
    {"Overall Score: 84/100", "No numeric content here", "Overall Score: 0/100"}
ProviderOutcomes ==
    {[err |-> e, Content |-> ""] : e \in AnalyzeErrors}
        \cup {[err |-> NoError, Content |-> r] : r \in Replies}

\* The largest score extractScoreFromLLMResponse accepts, and the scale of the
\* local overall score.
MaxScore == 100

\* For the averaging rule: a page for each overall score the local scorer can give,
\* and a successful reply stating each score the extraction accepts.
ScoredPages ==
    {[Content |-> "content scoring " \o ToString(n), overall |-> n] : n \in 0..MaxScore}
ScoredReplies == {"Overall Score: " \o ToString(n) \o "/100" : n \in 0..MaxScore}
ScoredOutcomes == {[err |-> NoError, Content |-> r] : r \in ScoredReplies}

\* strings.TrimSpace(content) == "" and extractScoreFromLLMResponse(content), tabulated
\* once over the contents and the replies above.
BlankContent ==
    [c \in {p.Content : p \in Pages \cup FilePages \cup ScoredPages} |-> TrimSpace(c) = ""]
IsBlank(content) == BlankContent[content]
ExtractedScore == [r \in Replies \cup ScoredReplies |-> extractScoreFromLLMResponse(r)]

\* LocalScorer.AnalyzeContent(content, pageData).Overall.
LocalOverall(page) == page.overall

\* Provider.Analyze(ctx, content, prompt) of the named provider, whose HTTP call ends
\* as outcome says: every provider first rejects blank content.
ProviderAnalyze(name, content, outcome) ==
    IF IsBlank(content)
    THEN [err |-> LLMErrorString("request",
                      "Content cannot be empty - webpage scraping may have failed or returned no extractable content",
                      name),
          Content |-> ""]
    ELSE IF outcome.err # NoError
    THEN [err |-> "[" \o name \o "] " \o outcome.err, Content |-> ""]
    ELSE outcome

formatLocalAnalysis(overall) ==
    "=== Local GEO Analysis ===\n\nOverall Score: " \o ToString(overall) \o "/100\n\n"

formatLLMRecommendation == "\n\n## Enhanced Analysis Recommendation\n"

\* metadata[key] = value on a map[string]any.
Set(metadata, key, value) ==
    [k \in DOMAIN metadata \cup {key} |-> IF k = key THEN value ELSE metadata[k]]

\* The Result analyzePageData starts from: the local score is always calculated.
BaseResult(c, page) ==
    [Mode |-> c.Mode, LocalScore |-> LocalOverall(page), Score |-> LocalOverall(page),
     Analysis |-> "", Metadata |-> [content_size |-> Len(page.Content)]]

Returned(result, err, called) == [result |-> result, err |-> err, called |-> called]

\* A variant of the local case that asks the provider whenever one of the known
\* providers has a key.
AnalyzeLocalAsksProvider(c, a, e, page) ==
    LET base == BaseResult(c, page)
    IN Returned([base EXCEPT !.Analysis = formatLocalAnalysis(base.LocalScore),
                             !.Metadata = Set(@, "scoring_method", "local_only")],
                NoError,
                IF getAPIKey(e, "claude") # "" \/ getAPIKey(e, "openai") # "" THEN 1 ELSE 0)

\* A variant of the local case that recommends an LLM whenever the configured
\* provider has no valid key, whatever mode was asked for.
AnalyzeLocalRecommendsAlways(c, a, e, page) ==
    LET base == BaseResult(c, page)
    IN Returned([base EXCEPT
                    !.Analysis = formatLocalAnalysis(base.LocalScore)
                        \o (IF ~hasValidAPIKey(e, c.LLMProvider)
                            THEN formatLLMRecommendation ELSE ""),
                    !.Metadata = Set(@, "scoring_method", "local_only")],
                NoError, 0)

\* The local case of analyzePageData.
AnalyzeLocal(c, a, e, page) ==
    LET base == BaseResult(c, page)
        recommend == a.originalMode \in {"auto", ""} /\ ~hasValidAPIKey(e, c.LLMProvider)
    IN Returned([base EXCEPT
                    !.Analysis = formatLocalAnalysis(base.LocalScore)
                        \o (IF recommend THEN formatLLMRecommendation ELSE ""),
                    !.Metadata = Set(@, "scoring_method", "local_only")],
                NoError, 0)

\* A variant that rounds the half up.
AverageRoundedUp(localScore, llmScore) == (localScore + llmScore + 1) \div 2

\* (localScore.Overall + llmScore) / 2 on Go ints: the quotient is truncated.
Average(localScore, llmScore) == (localScore + llmScore) \div 2

\* A variant that averages the local score with the 0 that extraction returned.
LLMNoScoreAveraged(base) ==
    [base EXCEPT !.Score = Average(base.LocalScore, 0),
                 !.Metadata = Set(@, "scoring_method", "llm_averaged")]

\* The llm case when extractScoreFromLLMResponse returned 0: the local score stays.
LLMNoScore(base) ==
    [base EXCEPT !.Metadata = Set(@, "scoring_method", "llm_no_score_fallback")]

\* A variant that averages the local score with the 0 that extraction returned.
HybridNoScoreAveraged(base) ==
    [base EXCEPT !.Score = Average(base.LocalScore, 0),
                 !.Metadata = Set(@, "scoring_method", "hybrid_averaged")]

\* A variant that marks the result as averaged without recording the two scores.
HybridNoScoreMarkedAveraged(base) ==
    [base EXCEPT !.Metadata = Set(@, "scoring_method", "hybrid_averaged")]

\* The hybrid case when extractScoreFromLLMResponse returned 0: nothing is set.
HybridNoScore(base) == base

\* A variant that fails the request, as the llm case does.
HybridOnErrorFails(base, err) == Returned(Nil, "LLM analysis failed: " \o err, 1)

\* The hybrid case when Provider.Analyze failed: the error is recorded and the
\* result is returned.
HybridOnError(base, err) ==
    Returned([base EXCEPT !.Metadata = Set(Set(@, "llm_error", err),
                                           "scoring_method", "local_only_fallback")],
             NoError, 1)

\* The llm case of analyzePageData, from the provider's call on.
AnalyzeLLMCall(c, a, e, page, outcome) ==
    LET base == BaseResult(c, page)
        response == ProviderAnalyze(a.provider.name, page.Content, outcome)
        llmScore == ExtractedScore[response.Content]
    IN     IF response.err # NoError
            THEN Returned(Nil, "LLM analysis failed: " \o response.err, 1)
            ELSE Returned(
                     [(IF llmScore > 0
                       THEN [base EXCEPT
                                !.Score = Average(base.LocalScore, llmScore),
                                !.Metadata =
                                    Set(Set(Set(@, "local_score", base.LocalScore),
                                            "llm_score", llmScore),
                                        "scoring_method", "llm_averaged")]
                       ELSE LLMNoScore(base))
                      EXCEPT !.Analysis = response.Content,
                             !.Metadata = Set(@, "provider", a.provider.name)],
                     NoError, 1)

\* A variant of the llm case that reports no error when no provider was constructed.
AnalyzeLLMUnchecked(c, a, e, page, outcome) ==
    IF a.provider = Nil THEN Returned(Nil, NoError, 0)
    ELSE AnalyzeLLMCall(c, a, e, page, outcome)

\* The llm case of analyzePageData.
AnalyzeLLM(c, a, e, page, outcome) ==
    IF a.initError # "" THEN Returned(Nil, a.initError, 0)
    ELSE IF a.provider = Nil THEN Returned(Nil, "LLM provider not available", 0)
    ELSE AnalyzeLLMCall(c, a, e, page, outcome)

\* The hybrid case of analyzePageData.
AnalyzeHybrid(c, a, e, page, outcome) ==
    LET base == [BaseResult(c, page) EXCEPT
                    !.Analysis = formatLocalAnalysis(LocalOverall(page))] IN
    IF a.provider = Nil
    THEN Returned([base EXCEPT !.Metadata = Set(@, "scoring_method", "local_only")],
                  NoError, 0)
    ELSE LET response == ProviderAnalyze(a.provider.name, page.Content, outcome)
             llmScore == ExtractedScore[response.Content]
         IN IF response.err # NoError
            THEN HybridOnError(base, response.err)
            ELSE Returned(
                     [(IF llmScore > 0
                       THEN [base EXCEPT
                                !.Score = Average(base.LocalScore, llmScore),
                                !.Metadata =
                                    Set(Set(Set(@, "local_score", base.LocalScore),
                                            "llm_score", llmScore),
                                        "scoring_method", "hybrid_averaged")]
                       ELSE HybridNoScore(base))
                      EXCEPT !.Analysis = base.Analysis \o "\n\n" \o response.Content,
                             !.Metadata = Set(@, "provider", a.provider.name)],
                     NoError, 1)

\* analyzePageData(pageData, source) for the config c, the Analyzer a and the
\* environment e: the (result, err) pair, and the number of Provider.Analyze calls
\* made; outcome is how the provider's HTTP call ends if it is made.
analyzePageData(c, a, e, page, outcome) ==
    CASE c.Mode = "local" -> AnalyzeLocal(c, a, e, page)
      [] c.Mode = "llm" -> AnalyzeLLM(c, a, e, page, outcome)
      [] c.Mode = "hybrid" -> AnalyzeHybrid(c, a, e, page, outcome)
      [] OTHER -> Returned(BaseResult(c, page), NoError, 0)

\* ------------------------------------------------------------------ state machine

Threads == 0..MaxURLs
Workers == 1..Len(urls)

Modes == {"auto", "", "local", "llm", "hybrid"}
Outputs == {"text", "json"}
ClaudeKeys == {"", "sk-ant-key", "sk-proj-key"}
OpenAIKeys == {"", "sk-proj-key", "key"}

\* The URL file of a bulk run with n valid lines.
URLFile(n) == [i \in 1..n |-> "https://example.com/" \o ToString(i)]

\* What a call of AnalyzeURL or AnalyzeContent holds: the page analysed, what
\* Provider.Analyze returned if it was called, and the (result, err) returned.
NoResponse == [err |-> NoError, Content |-> ""]
NoLocals == [page |-> NoPage, response |-> NoResponse, result |-> Nil, err |-> NoError]
NoCalls == [AnalyzeURL |-> 0, AnalyzeContent |-> 0, ScrapeURL |-> 0, Analyze |-> 0]

\* No call into the local scorer is modelled.
NotScored == [pc |-> "none"]

InitCommand ==
    /\ mainPc = "cli"
    /\ cfg = NoConfig
    /\ analyzer = NoAnalyzer
    /\ resolved = NoResolved
    /\ pc = [t \in Threads |-> "idle"]
    /\ loc = [t \in Threads |-> NoLocals]
    /\ calls = [t \in Threads |-> NoCalls]
    /\ results = <<>>
    /\ semaphore = 0
    /\ wg = 0
    /\ spinner = [Suffix |-> "", active |-> FALSE]
    /\ writers = [Suffix |-> {}, active |-> {}]

InitRest == InitCommand /\ scored = NotScored

\* mux-geo bulk FILE, with the provider and the model left at their defaults.
InitBulk ==
    /\ flags \in [cmd : {"bulk"}, provider : {"claude"}, model : {""}, output : Outputs,
                  mode : Modes, concurrent : 0..MaxConcurrent]
    /\ env \in [CLAUDE_API_KEY : {"", "sk-ant-key"}, OPENAI_API_KEY : {""}]
    /\ urls \in {URLFile(n) : n \in 0..MaxURLs}
    /\ InitRest

\* mux-geo analyze URL, with any provider, model, mode and keys.
InitAnalyze ==
    /\ flags \in [cmd : {"analyze"}, provider : {"claude", "openai", "gpt", "local"},
                  model : {""} \cup Range(ClaudeModels) \cup Range(OpenAIModels)
                               \cup Range(LocalModels),
                  output : Outputs, mode : Modes, concurrent : {0}]
    /\ env \in [CLAUDE_API_KEY : ClaudeKeys, OPENAI_API_KEY : OpenAIKeys]
    /\ urls = URLFile(1)
    /\ InitRest

showAnimations == cfg.OutputFormat # "json"

\* The command's RunE up to and including analyzer.New (for bulk: bulk.New).
Setup ==
    LET sel == SelectModel(flags.provider, flags.model)
        made == New(env, MakeConfig(flags, sel.model))
    IN IF sel.err # ""
       THEN /\ mainPc' = "failed"
            /\ UNCHANGED <<cfg, analyzer, resolved>>
       ELSE /\ mainPc' = "constructed"
            /\ cfg' = made.cfg
            /\ analyzer' = made.analyzer
            /\ resolved' = made.resolved

\* analyzeCmd.RunE: flags, model selection, config, analyzer.New; then it calls
\* AnalyzeURL on its own goroutine.
AnalyzeRunE ==
    /\ flags.cmd = "analyze"
    /\ mainPc = "cli"
    /\ Setup
    /\ pc' = [pc EXCEPT ![0] = IF mainPc' = "constructed" THEN "au_start" ELSE "idle"]
    /\ UNCHANGED <<scored, flags, env, urls, loc, calls, results, semaphore, wg, spinner, writers>>

\* analyzeCmd.RunE after AnalyzeURL returned: the error, or the formatted result.
AnalyzeRunEReturn ==
    /\ flags.cmd = "analyze"
    /\ mainPc = "constructed"
    /\ pc[0] = "au_ret"
    /\ mainPc' = IF loc[0].err # NoError THEN "failed" ELSE "returned"
    /\ pc' = [pc EXCEPT ![0] = "done"]
    /\ UNCHANGED <<scored, flags, env, urls, cfg, analyzer, resolved, loc, calls, results,
                   semaphore, wg, spinner, writers>>

\* bulkCmd.RunE: flags, model selection, config, bulk.New, ProcessFile and
\* ProcessURLs up to wg.Wait: the output slice is made and one goroutine per URL
\* is started, after wg.Add(1) for each.
BulkRunE ==
    /\ flags.cmd = "bulk"
    /\ mainPc = "cli"
    /\ Setup
    /\ IF mainPc' = "constructed" /\ Len(urls) > 0
       THEN /\ results' = [i \in 1..Len(urls) |-> Nil]
            /\ wg' = Len(urls)
            /\ pc' = [t \in Threads |-> IF t \in Workers THEN "w_acquire" ELSE "idle"]
       ELSE UNCHANGED <<results, wg, pc>>
    /\ UNCHANGED <<scored, flags, env, urls, loc, calls, semaphore, spinner, writers>>

\* ProcessFile with no URL in the file: it returns an error instead of calling
\* ProcessURLs.
ProcessFileEmpty ==
    /\ flags.cmd = "bulk"
    /\ mainPc = "constructed"
    /\ Len(urls) = 0
    /\ mainPc' = "failed"
    /\ UNCHANGED <<scored, flags, env, urls, cfg, analyzer, resolved, pc, loc, calls, results,
                   semaphore, wg, spinner, writers>>

\* A send on a channel that never blocks.
CanSendAlways(count, capacity) == TRUE

\* A variant that lets one send through whatever the capacity is.
CanSendAtLeastOne(count, capacity) == count < capacity \/ count = 0

\* A send on the semaphore channel, made with capacity cfg.Concurrent and never
\* received from except by a worker that sent: it proceeds while the buffer has room.
CanSend(count, capacity) == count < capacity

\* The worker's `semaphore <- struct{}{}`.
Acquire(i) ==
    /\ pc[i] = "w_acquire"
    /\ CanSend(semaphore, cfg.Concurrent)
    /\ semaphore' = semaphore + 1
    /\ pc' = [pc EXCEPT ![i] = "au_start"]
    /\ UNCHANGED <<scored, flags, env, urls, mainPc, cfg, analyzer, resolved, loc, calls,
                   results, wg, spinner, writers>>

\* UI.StartSpinner / UpdateSpinner / StopSpinner: the spinner after the call.
StartSpinner(sp, message) == [Suffix |-> " " \o message, active |-> TRUE]
UpdateSpinner(sp, message) == [sp EXCEPT !.Suffix = " " \o message]
StopSpinner(sp) == [sp EXCEPT !.active = FALSE]

\* AnalyzeURL, entry: the spinner is started unless the output is JSON.
AnalyzeURLStart(t) ==
    /\ pc[t] = "au_start"
    /\ calls' = [calls EXCEPT ![t].AnalyzeURL = @ + 1]
    /\ IF showAnimations
       THEN /\ spinner' = StartSpinner(spinner, "Fetching webpage content...")
            /\ writers' = [Suffix |-> writers.Suffix \cup {t},
                           active |-> writers.active \cup {t}]
       ELSE UNCHANGED <<spinner, writers>>
    /\ pc' = [pc EXCEPT ![t] = "au_scrape"]
    /\ UNCHANGED <<scored, flags, env, urls, mainPc, cfg, analyzer, resolved, loc,
                   results, semaphore, wg>>

\* Where AnalyzeURL goes when ScrapeURL failed: it returns. The variant fetches again.
ScrapeAgain == "au_scrape"
AfterScrapeError == "au_ret"

\* AnalyzeURL: ScrapeURL returns; on an error, or on blank content, AnalyzeURL stops
\* the spinner and returns the error; otherwise the spinner's text is updated and
\* analyzePageData is next.
AnalyzeURLScrape(t) ==
    /\ pc[t] = "au_scrape"
    /\ calls' = [calls EXCEPT ![t].ScrapeURL = @ + 1]
    /\ \E out \in ScrapeOutcomes :
         IF out.err # NoError
         THEN /\ loc' = [loc EXCEPT ![t].err = "failed to scrape URL: " \o out.err]
              /\ pc' = [pc EXCEPT ![t] = AfterScrapeError]
              /\ IF showAnimations
                 THEN /\ spinner' = StopSpinner(spinner)
                      /\ writers' = [writers EXCEPT !.active = @ \cup {t}]
                 ELSE UNCHANGED <<spinner, writers>>
         ELSE IF IsBlank(out.page.Content)
         THEN /\ loc' = [loc EXCEPT ![t].err =
                            "no content could be extracted from the webpage - the page may be empty, require JavaScript, or have unusual structure"]
              /\ pc' = [pc EXCEPT ![t] = "au_ret"]
              /\ IF showAnimations
                 THEN /\ spinner' = StopSpinner(UpdateSpinner(spinner, "Analyzing content..."))
                      /\ writers' = [Suffix |-> writers.Suffix \cup {t},
                                     active |-> writers.active \cup {t}]
                 ELSE UNCHANGED <<spinner, writers>>
         ELSE /\ loc' = [loc EXCEPT ![t].page = out.page]
              /\ pc' = [pc EXCEPT ![t] = "au_analyze"]
              /\ IF showAnimations
                 THEN /\ spinner' = UpdateSpinner(spinner, "Analyzing content...")
                      /\ writers' = [writers EXCEPT !.Suffix = @ \cup {t}]
                 ELSE UNCHANGED <<spinner, writers>>
    /\ UNCHANGED <<scored, flags, env, urls, mainPc, cfg, analyzer, resolved, results,
                   semaphore, wg>>

\* What Provider.Analyze returned to analyzePageData, if it was called.
Response(a, page, outcome, called) ==
    IF called = 0 THEN NoResponse
    ELSE ProviderAnalyze(a.provider.name, page.Content, outcome)

\* AnalyzeURL: analyzePageData returns; the spinner is stopped and AnalyzeURL
\* returns analyzePageData's (result, err). The provider's HTTP call, if made, ends
\* as one of outcomes.
AnalyzeURLAnalyzeWith(t, outcomes) ==
    /\ pc[t] = "au_analyze"
    /\ \E outcome \in outcomes :
         LET r == analyzePageData(cfg, analyzer, env, loc[t].page, outcome)
         IN /\ loc' = [loc EXCEPT ![t].result = r.result, ![t].err = r.err,
                                   ![t].response = Response(analyzer, loc[t].page,
                                                            outcome, r.called)]
            /\ calls' = [calls EXCEPT ![t].Analyze = @ + r.called]
    /\ IF showAnimations
       THEN /\ spinner' = StopSpinner(spinner)
            /\ writers' = [writers EXCEPT !.active = @ \cup {t}]
       ELSE UNCHANGED <<spinner, writers>>
    /\ pc' = [pc EXCEPT ![t] = "au_ret"]
    /\ UNCHANGED <<scored, flags, env, urls, mainPc, cfg, analyzer, resolved, results,
                   semaphore, wg>>

AnalyzeURLAnalyze(t) == AnalyzeURLAnalyzeWith(t, ProviderOutcomes)

\* A variant that keeps the result and drops the error.
BulkResultDropsError(u, result, err) == [URL |-> u, Result |-> result, Error |-> ""]

\* The BulkResult a worker builds from AnalyzeURL's (result, err).
BulkResult(u, result, err) ==
    IF err # NoError THEN [URL |-> u, Result |-> Nil, Error |-> err]
    ELSE [URL |-> u, Result |-> result, Error |-> ""]

\* A variant that stores the results in completion order, each in the first free slot.
WriteSlotInCompletionOrder(i) ==
    /\ i \in Workers
    /\ pc[i] = "au_ret"
    /\ LET free == CHOOSE k \in DOMAIN results :
                       results[k] = Nil /\ \A j \in 1..(k - 1) : results[j] # Nil
       IN results' = [results EXCEPT
                         ![free] = BulkResult(urls[i], loc[i].result, loc[i].err)]
    /\ pc' = [pc EXCEPT ![i] = "w_release"]
    /\ UNCHANGED <<scored, flags, env, urls, mainPc, cfg, analyzer, resolved, loc, calls,
                   semaphore, wg, spinner, writers>>

\* The worker's `results[index] = result`.
WriteSlot(i) ==
    /\ i \in Workers
    /\ pc[i] = "au_ret"
    /\ results' = [results EXCEPT ![i] = BulkResult(urls[i], loc[i].result, loc[i].err)]
    /\ pc' = [pc EXCEPT ![i] = "w_release"]
    /\ UNCHANGED <<scored, flags, env, urls, mainPc, cfg, analyzer, resolved, loc, calls,
                   semaphore, wg, spinner, writers>>

\* A variant that receives from the semaphore only when AnalyzeURL succeeded.
ReleaseOnSuccess(i) ==
    /\ pc[i] = "w_release"
    /\ semaphore' = IF loc[i].err = NoError THEN semaphore - 1 ELSE semaphore
    /\ pc' = [pc EXCEPT ![i] = "w_done"]
    /\ UNCHANGED <<scored, flags, env, urls, mainPc, cfg, analyzer, resolved, loc, calls,
                   results, wg, spinner, writers>>

\* The worker's deferred `<-semaphore`, run first of its two deferred calls.
Release(i) ==
    /\ pc[i] = "w_release"
    /\ semaphore' = semaphore - 1
    /\ pc' = [pc EXCEPT ![i] = "w_done"]
    /\ UNCHANGED <<scored, flags, env, urls, mainPc, cfg, analyzer, resolved, loc, calls,
                   results, wg, spinner, writers>>

\* The worker's deferred wg.Done(), run last.
Done(i) ==
    /\ pc[i] = "w_done"
    /\ wg' = wg - 1
    /\ pc' = [pc EXCEPT ![i] = "done"]
    /\ UNCHANGED <<scored, flags, env, urls, mainPc, cfg, analyzer, resolved, loc, calls,
                   results, semaphore, spinner, writers>>

\* wg.Wait() returns when the counter is zero, and ProcessURLs returns (results, nil).
WaitReturns == wg = 0

ProcessURLsReturn ==
    /\ flags.cmd = "bulk"
    /\ mainPc = "constructed"
    /\ Len(urls) > 0
    /\ WaitReturns
    /\ mainPc' = "returned"
    /\ UNCHANGED <<scored, flags, env, urls, cfg, analyzer, resolved, pc, loc, calls, results,
                   semaphore, wg, spinner, writers>>

WorkerStep(i) ==
    \/ Acquire(i)
    \/ AnalyzeURLStart(i)
    \/ AnalyzeURLScrape(i)
    \/ AnalyzeURLAnalyze(i)
    \/ WriteSlot(i)
    \/ Release(i)
    \/ Done(i)

Next ==
    \/ BulkRunE
    \/ ProcessFileEmpty
    \/ \E i \in Workers : WorkerStep(i)
    \/ ProcessURLsReturn

Spec == InitBulk /\ [][Next]_vars

\* The bulk runs with text output, where the workers also drive the spinner, whose
\* requested mode is llm or auto: between them the three modes an Analyzer can end
\* up in (llm; hybrid with a valid key; local without).
InitFair == InitBulk /\ flags.mode \in {"llm", "auto"} /\ flags.output = "text"

\* The Go scheduler runs some runnable goroutine eventually: as long as a step of
\* the command or of a worker is possible, one is taken.
FairSpec == InitFair /\ [][Next]_vars /\ WF_vars(Next)

NextAnalyze ==
    \/ AnalyzeRunE
    \/ AnalyzeURLStart(0)
    \/ AnalyzeURLScrape(0)
    \/ AnalyzeURLAnalyze(0)
    \/ AnalyzeRunEReturn

SpecAnalyze == InitAnalyze /\ [][NextAnalyze]_vars

\* ------------------------------------------------------------------ averaging rule

\* analyzePageData as a function of the local overall score and the score the reply
\* states: an Analyzer constructed for llm or hybrid mode with a provider, inside
\* AnalyzeURL with a page of ScoredPages fetched.
InitAverage ==
    /\ flags \in [cmd : {"analyze"}, provider : {"claude", "openai"}, model : {""},
                  output : {"json"}, mode : {"llm", "hybrid"}, concurrent : {0}]
    /\ env = [CLAUDE_API_KEY |-> "sk-ant-key", OPENAI_API_KEY |-> "sk-proj-key"]
    /\ urls = URLFile(1)
    /\ LET made == New(env, MakeConfig(flags, SelectModel(flags.provider, flags.model).model))
       IN /\ cfg = made.cfg
          /\ analyzer = made.analyzer
          /\ resolved = made.resolved
    /\ mainPc = "constructed"
    /\ pc = [t \in Threads |-> IF t = 0 THEN "au_analyze" ELSE "idle"]
    /\ \E page \in ScoredPages :
          loc = [t \in Threads |-> IF t = 0 THEN [NoLocals EXCEPT !.page = page]
                                   ELSE NoLocals]
    /\ calls = [t \in Threads |-> IF t = 0 THEN [NoCalls EXCEPT !.AnalyzeURL = 1,
                                                                !.ScrapeURL = 1]
                                   ELSE NoCalls]
    /\ results = <<>>
    /\ semaphore = 0
    /\ wg = 0
    /\ spinner = [Suffix |-> "", active |-> FALSE]
    /\ writers = [Suffix |-> {}, active |-> {}]
    /\ scored = NotScored

\* analyzePageData applied to the page and a reply stating a score.
AnalyzeScored == AnalyzeURLAnalyzeWith(0, ScoredOutcomes)

NextAverage == AnalyzeScored

SpecAverage == InitAverage /\ [][NextAverage]_vars

\* ------------------------------------------------------------------ scan command

\* The files ScanDirectory finds, in the order it analyses them.
FileList(n) == [i \in 1..n |-> "site/page" \o ToString(i) \o ".html"]

\* Values of --model: the flag's default and one model of each provider.
ScanModels == {"claude-3-sonnet", "claude-3-5-sonnet-20241022", "gpt-4", "llama2"}

\* mux-geo scan DIR: the command validates neither the provider nor the model.
InitScan ==
    /\ flags \in [cmd : {"scan"}, provider : {"claude", "openai", "gpt", "local"},
                  model : ScanModels, output : {"text"}, mode : Modes, concurrent : {0}]
    /\ env \in [CLAUDE_API_KEY : ClaudeKeys, OPENAI_API_KEY : OpenAIKeys]
    /\ urls \in {FileList(n) : n \in 0..MaxURLs}
    /\ InitRest

\* scanCmd.RunE up to ScanDirectory's second pass: the config, scanner.New (which
\* calls analyzer.New) and the discovery of the files.
ScanRunE ==
    /\ flags.cmd = "scan"
    /\ mainPc = "cli"
    /\ LET made == New(env, MakeConfig(flags, flags.model))
       IN /\ cfg' = made.cfg
          /\ analyzer' = made.analyzer
          /\ resolved' = made.resolved
    /\ mainPc' = "constructed"
    /\ pc' = [t \in Threads |-> IF t \in Workers THEN "sf_wait" ELSE "idle"]
    /\ UNCHANGED <<scored, flags, env, urls, loc, calls, results, semaphore, wg, spinner, writers>>

\* Analyzer.AnalyzeContent(content, title).
AnalyzeContent(c, a, e, page, outcome) == analyzePageData(c, a, e, page, outcome)

\* The ScanResult scanFile builds from AnalyzeContent's (result, err).
ScanResult(path, result, err) ==
    IF err # NoError
    THEN [FilePath |-> path, Result |-> Nil, Error |-> "failed to analyze content: " \o err]
    ELSE [FilePath |-> path, Result |-> result, Error |-> ""]

\* ScanDirectory's loop body for file i: scanFile reads the file and calls
\* AnalyzeContent, and the ScanResult is appended. The files are taken in order.
ScanFile(i) ==
    /\ flags.cmd = "scan"
    /\ pc[i] = "sf_wait"
    /\ i = Len(results) + 1
    /\ \E out \in FileOutcomes :
         IF out.err # NoError
         THEN /\ results' = Append(results,
                     [FilePath |-> urls[i], Result |-> Nil,
                      Error |-> "failed to read file: " \o out.err])
              /\ UNCHANGED <<loc, calls>>
         ELSE \E outcome \in ProviderOutcomes :
                LET r == AnalyzeContent(cfg, analyzer, env, out.page, outcome)
                IN /\ loc' = [loc EXCEPT ![i] =
                                 [page |-> out.page,
                                  response |-> Response(analyzer, out.page, outcome, r.called),
                                  result |-> r.result, err |-> r.err]]
                   /\ calls' = [calls EXCEPT ![i].AnalyzeContent = @ + 1,
                                             ![i].Analyze = @ + r.called]
                   /\ results' = Append(results, ScanResult(urls[i], r.result, r.err))
    /\ pc' = [pc EXCEPT ![i] = "done"]
    /\ UNCHANGED <<scored, flags, env, urls, mainPc, cfg, analyzer, resolved, semaphore, wg,
                   spinner, writers>>

\* ScanDirectory returns the results once every file was taken.
ScanDirectoryReturn ==
    /\ flags.cmd = "scan"
    /\ mainPc = "constructed"
    /\ Len(results) = Len(urls)
    /\ mainPc' = "returned"
    /\ UNCHANGED <<scored, flags, env, urls, cfg, analyzer, resolved, pc, loc, calls, results,
                   semaphore, wg, spinner, writers>>

NextScan ==
    \/ ScanRunE
    \/ \E i \in Workers : ScanFile(i)
    \/ ScanDirectoryReturn

SpecScan == InitScan /\ [][NextScan]_vars

\* ------------------------------------------------------------------ float64

\* The float64 values the scorer computes, exactly: a double x with 0 <= x < 2048
\* that is a multiple of 2^-60 is held as the integer x * 2^60, in three limbs of 24
\* bits (h the highest). Every double from 2^-8 up is such a multiple.
Limb == 16777216
UnitsPerOne == 4096

Carry(h, m, l) ==
    LET m1 == m + l \div Limb
    IN [h |-> h + m1 \div Limb, m |-> m1 % Limb, l |-> l % Limb]

\* float64(n) of an int 0 <= n < 2048.
Float64(n) == [h |-> n * UnitsPerOne, m |-> 0, l |-> 0]

\* The exact sum, the exact product with an int 0 <= n < 128, and the exact quotient
\* and remainder on division by an int 0 < n < 128.
Plus(x, y) == Carry(x.h + y.h, x.m + y.m, x.l + y.l)
Times(x, n) == Carry(x.h * n, x.m * n, x.l * n)
Quotient(x, n) ==
    LET t1 == (x.h % n) * Limb + x.m
        t2 == (t1 % n) * Limb + x.l
    IN [quot |-> [h |-> x.h \div n, m |-> t1 \div n, l |-> t2 \div n], rem |-> t2 % n]

RECURSIVE BitLength(_)
BitLength(n) == IF n = 0 THEN 0 ELSE 1 + BitLength(n \div 2)

Bits(x) ==
    IF x.h > 0 THEN 48 + BitLength(x.h)
    ELSE IF x.m > 0 THEN 24 + BitLength(x.m)
    ELSE BitLength(x.l)

\* IEEE 754 rounding of an exact result to the 53 significant bits of a double,
\* ties to even; inexact says that the exact result lies above x by less than one
\* unit (a division's remainder). Exact for results of 2^-7 and more.
RoundToDouble(x, inexact) ==
    LET k == Bits(x) - 53
        p == 2 ^ k
        r == x.l % p
        odd == (x.l \div p) % 2 = 1
        up == r > p \div 2 \/ (r = p \div 2 /\ (inexact \/ odd))
    IN IF k <= 0 THEN x
       ELSE Carry(x.h, x.m, x.l - r + (IF up THEN p ELSE 0))

\* x + y, x * float64(n) and x / float64(n) on float64.
FAdd(x, y) == RoundToDouble(Plus(x, y), FALSE)
FMul(x, n) == RoundToDouble(Times(x, n), FALSE)
FDiv(x, n) == LET q == Quotient(x, n) IN RoundToDouble(q.quot, q.rem # 0)

\* x*float64(n) + y computed as one fused multiply-add: rounded once.
FMA(x, n, y) == RoundToDouble(Plus(Times(x, n), y), FALSE)

\* int(x) and int(math.Round(x)): truncation, and rounding half away from zero.
Trunc(x) == x.h \div UnitsPerOne
Round(x) ==
    x.h \div UnitsPerOne + (IF x.h % UnitsPerOne >= UnitsPerOne \div 2 THEN 1 ELSE 0)

FLess(x, y) ==
    \/ x.h < y.h
    \/ x.h = y.h /\ x.m < y.m
    \/ x.h = y.h /\ x.m = y.m /\ x.l < y.l

\* The double nearest to the decimal literal hundredths/100.
Literal(hundredths) == FDiv(Float64(hundredths), 100)

\* ------------------------------------------------------------------ scorer

min(a, b) == IF a < b THEN a ELSE b

\* The `for _, h := range headings` loop that looks for an H1, from index i.
RECURSIVE hasH1(_, _)
hasH1(headings, i) ==
    IF i > Len(headings) THEN FALSE
    ELSE IF headings[i] = 1 THEN TRUE
    ELSE hasH1(headings, i + 1)

\* The `for i := 1; i < len(headings); i++` loop of the hierarchy check, from the
\* Go index i on.
RECURSIVE hierarchyGood(_, _)
hierarchyGood(headings, i) ==
    IF i >= Len(headings) THEN TRUE
    ELSE IF headings[i + 1] > headings[i] + 1 THEN FALSE
    ELSE hierarchyGood(headings, i + 1)

\* A variant that also runs the hierarchy check on a single heading.
evaluateHeadingHierarchyAnyLength(headings) ==
    IF Len(headings) = 0 THEN 0
    ELSE min(10 + (IF hasH1(headings, 1) THEN 10 ELSE 0)
                + (IF hierarchyGood(headings, 1) THEN 10 ELSE 0), 30)

\* evaluateHeadingHierarchy(headings), the headings given by their levels.
evaluateHeadingHierarchy(headings) ==
    IF Len(headings) = 0 THEN 0
    ELSE min(10 + (IF hasH1(headings, 1) THEN 10 ELSE 0)
                + (IF Len(headings) > 1 /\ hierarchyGood(headings, 1) THEN 10 ELSE 0),
             30)

\* evaluateContentOrganization, by len(strings.Split(content, "\n\n")).
evaluateContentOrganization(sections) ==
    IF sections < 2 THEN 5
    ELSE min(10 + (IF sections >= 3 THEN 10 ELSE 0) + (IF sections >= 5 THEN 5 ELSE 0), 25)

\* A variant that rounds ratio * 25 to the nearest integer.
evaluateParagraphStructureRounded(goodParagraphs, paragraphs) ==
    IF paragraphs > 0 THEN Round(FMul(FDiv(Float64(goodParagraphs), paragraphs), 25)) ELSE 0

\* evaluateParagraphStructure, by the number of paragraphs with 20 to 150 words and
\* the number of paragraphs: int(ratio * 25) on float64.
evaluateParagraphStructure(goodParagraphs, paragraphs) ==
    IF paragraphs > 0 THEN Trunc(FMul(FDiv(Float64(goodParagraphs), paragraphs), 25)) ELSE 0

\* evaluateListUsage, by the number of list indicators counted.
evaluateListUsage(listCount) ==
    IF listCount = 0 THEN 5 ELSE IF listCount <= 3 THEN 10 ELSE 20

\* evaluateReadability, by len(strings.Fields(content)), the number of pieces the
\* split at [.!?]+ gives, and whether the average of countSyllables lies in [1, 2.5].
evaluateReadability(words, sentences, syllablesInRange) ==
    IF words = 0 THEN 0
    ELSE LET avgWordsPerSentence == FDiv(Float64(words), sentences)
         IN min(20 + (IF ~FLess(avgWordsPerSentence, Float64(10))
                         /\ ~FLess(Float64(25), avgWordsPerSentence) THEN 10 ELSE 0)
                   + (IF syllablesInRange THEN 10 ELSE 0),
                40)

\* evaluateTerminologyConsistency, by the number of words longer than 4 bytes that
\* occur 3 times or more: each of them is a key term and a consistent term.
evaluateTerminologyConsistency(keyTerms) ==
    IF keyTerms = 0 THEN 15
    ELSE Trunc(FMul(FDiv(Float64(keyTerms), keyTerms), 30))

evaluateDefinitionClarity(definitionCount) ==
    IF definitionCount = 0 THEN 10 ELSE IF definitionCount <= 5 THEN 20 ELSE 30

evaluateContentDepth(wordCount) ==
    IF wordCount < 100 THEN 5
    ELSE IF wordCount < 300 THEN 15
    ELSE IF wordCount < 800 THEN 30
    ELSE IF wordCount < 1500 THEN 40
    ELSE 35

evaluateExamplesAndSpecifics(exampleCount) ==
    IF exampleCount = 0 THEN 5
    ELSE IF exampleCount <= 3 THEN 15
    ELSE IF exampleCount <= 8 THEN 25
    ELSE IF exampleCount <= 15 THEN 35
    ELSE 30

evaluateBackgroundInfo(backgroundCount) ==
    IF backgroundCount = 0 THEN 5 ELSE IF backgroundCount <= 3 THEN 15 ELSE 25

\* A variant whose top band gives 45.
evaluateCitationsGenerous(citationCount) ==
    IF citationCount = 0 THEN 5
    ELSE IF citationCount <= 3 THEN 15
    ELSE IF citationCount <= 8 THEN 25
    ELSE IF citationCount <= 15 THEN 45
    ELSE 35

evaluateCitations(citationCount) ==
    IF citationCount = 0 THEN 5
    ELSE IF citationCount <= 3 THEN 15
    ELSE IF citationCount <= 8 THEN 25
    ELSE IF citationCount <= 15 THEN 40
    ELSE 35

evaluateExpertiseIndicators(expertiseCount) ==
    IF expertiseCount = 0 THEN 10 ELSE IF expertiseCount <= 3 THEN 20 ELSE 35

evaluateFactualAccuracy(uncertaintyCount, factualCount) ==
    min(15 + (IF factualCount > uncertaintyCount THEN 10 ELSE 0)
           + (IF factualCount >= 3 THEN 5 ELSE 0),
        25)

\* evaluateMetaInformation, by whether the title is set, the lengths of the
\* description and keywords tags (0 for a missing tag) and len(pageData.MetaTags).
evaluateMetaInformation(meta) ==
    min((IF meta.title THEN 10 ELSE 0)
          + (IF meta.description > 50 THEN 10 ELSE 0)
          + (IF meta.keywords > 10 THEN 5 ELSE 0)
          + (IF meta.tags >= 3 THEN 5 ELSE 0),
        30)

\* evaluateParsingFriendliness, by len(strings.Split(content, ".")) and whether the
\* content contains "\n\n".
evaluateParsingFriendliness(sentences, sections) ==
    min(15 + (IF sentences > 3 THEN 10 ELSE 0) + (IF sections >= 2 THEN 10 ELSE 0), 35)

\* evaluateInformationDensity, by len(strings.Fields(content)) and
\* len(strings.Split(content, ".")), which is never 0.
evaluateInformationDensity(words, sentences) ==
    LET avgWordsPerSentence == FDiv(Float64(words), sentences)
        within(lo, hi) == ~FLess(avgWordsPerSentence, Float64(lo))
                              /\ ~FLess(Float64(hi), avgWordsPerSentence)
    IN IF within(10, 25) THEN 35
       ELSE IF within(8, 30) THEN 25
       ELSE IF within(5, 35) THEN 15
       ELSE 10

\* The ScoreDetail the analyze* functions end with: MaxScore 100 and
\* Percentage = float64(score) / float64(detail.MaxScore) * 100.
ScoreDetail(score) ==
    [Score |-> score, MaxScore |-> 100,
     Percentage |-> FMul(FDiv(Float64(score), 100), 100)]

\* The five analyze* functions, on the counts the content c and the page's
\* headings and meta tags give.
analyzeContentStructure(c, page) ==
    ScoreDetail(evaluateHeadingHierarchy(page.headings)
                    + evaluateContentOrganization(c.sections)
                    + evaluateParagraphStructure(c.good, c.sections)
                    + evaluateListUsage(c.lists))

analyzeSemanticClarity(c) ==
    ScoreDetail(evaluateReadability(c.words, c.sentences, c.syllablesInRange)
                    + evaluateTerminologyConsistency(c.keyTerms)
                    + evaluateDefinitionClarity(c.definitions))

analyzeContextRichness(c, page) ==
    ScoreDetail(evaluateContentDepth(c.words)
                    + evaluateExamplesAndSpecifics(c.examples)
                    + evaluateBackgroundInfo(c.background))

analyzeAuthoritySignals(c, page) ==
    ScoreDetail(evaluateCitations(c.citations)
                    + evaluateExpertiseIndicators(c.expertise)
                    + evaluateFactualAccuracy(c.uncertainty, c.factual))

analyzeAccessibility(c, page) ==
    ScoreDetail(evaluateMetaInformation(page.meta)
                    + evaluateParsingFriendliness(c.dots, c.sections)
                    + evaluateInformationDensity(c.words, c.dots))

\* NewLocalScorer's weights, in hundredths: ContentStructure, SemanticClarity,
\* ContextRichness, AuthoritySignals, Accessibility.
Weights == <<25, 25, 20, 15, 15>>

\* weightedScore += float64(score) * weight, as two operations or, where the
\* compiler fuses them, as one.
Accumulate(weightedScore, score, weight, fused) ==
    IF fused THEN FMA(Literal(weight), score, weightedScore)
    ELSE FAdd(weightedScore, FMul(Literal(weight), score))

RECURSIVE WeightedScore(_, _, _)
WeightedScore(scores, n, fused) ==
    IF n = 0 THEN Float64(0)
    ELSE Accumulate(WeightedScore(scores, n - 1, fused), scores[n], Weights[n], fused)

\* A variant that truncates the weighted score.
calculateOverallScoreTruncated(scores, fused) == Trunc(WeightedScore(scores, 5, fused))

\* calculateOverallScore(breakdown), by the five dimension scores:
\* int(math.Round(weightedScore)).
calculateOverallScore(scores, fused) == Round(WeightedScore(scores, 5, fused))

\* ------------------------------------------------------------------ scorer: calls

\* No command runs while a call into the scorer alone is followed.
InitNoCommand ==
    /\ flags = [cmd |-> "", provider |-> "", model |-> "", output |-> "", mode |-> "",
                concurrent |-> 0]
    /\ env = [CLAUDE_API_KEY |-> "", OPENAI_API_KEY |-> ""]
    /\ urls = <<>>
    /\ InitCommand

\* What LocalScorer.AnalyzeContent is given, as the counts it takes of the content:
\* len(strings.Fields), the number of paragraphs strings.Split(content, "\n\n")
\* gives and how many of them have 20 to 150 words, the number of pieces
\* strings.Split(content, ".") gives, and the counts each dimension takes.
WordSamples == {0, 50, 200, 500, 1000, 2000}
DotSamples == {1, 100}
TopBandSections == 5
Shapes ==
    {c \in [words : WordSamples, sections : 1..MaxSections \cup {TopBandSections},
            good : 0..MaxSections \cup {TopBandSections}, dots : DotSamples] :
        /\ c.good <= c.sections
        /\ 20 * c.good <= c.words
        /\ c.sections = TopBandSections => c.good = TopBandSections}

\* Numbers of occurrences of a family of patterns: one of each band.
CountSamples == {0, 3, 8, 15, 16}
HeadingSamples == {<<>>, <<1>>, <<2>>, <<1, 2, 3>>, <<1, 3>>}
NoMeta == [title |-> FALSE, description |-> 0, keywords |-> 0, tags |-> 0]
MetaSamples ==
    {NoMeta,
     [title |-> TRUE, description |-> 0, keywords |-> 0, tags |-> 0],
     [title |-> TRUE, description |-> 51, keywords |-> 11, tags |-> 3]}

\* The counts of a content without any of the patterns on a page without headings
\* and meta tags, and of a content with many of each.
Sparse ==
    [headings |-> <<>>, lists |-> 0, sentences |-> 1, syllablesInRange |-> FALSE,
     keyTerms |-> 0, definitions |-> 0, examples |-> 0, background |-> 0,
     citations |-> 0, expertise |-> 0, uncertainty |-> 0, factual |-> 0, meta |-> NoMeta]
Rich ==
    [headings |-> <<1, 2, 3>>, lists |-> 15, sentences |-> 100, syllablesInRange |-> TRUE,
     keyTerms |-> 3, definitions |-> 15, examples |-> 15, background |-> 15,
     citations |-> 15, expertise |-> 15, uncertainty |-> 0, factual |-> 3,
     meta |-> [title |-> TRUE, description |-> 51, keywords |-> 11, tags |-> 3]]

\* The counts drawn: those of one dimension vary over the samples, the others are
\* all sparse or all rich.
Counts ==
    LET presets == {Sparse, Rich}
    IN {[p EXCEPT !.headings = h, !.lists = l] :
            p \in presets, h \in HeadingSamples, l \in CountSamples}
       \cup {[p EXCEPT !.sentences = n, !.syllablesInRange = y, !.keyTerms = k,
                       !.definitions = d] :
                p \in presets, n \in DotSamples, y \in BOOLEAN, k \in {0, 3},
                d \in {0, 3, 8}}
       \cup {[p EXCEPT !.examples = x, !.background = b] :
                p \in presets, x \in CountSamples, b \in CountSamples}
       \cup {[p EXCEPT !.citations = c, !.expertise = x, !.uncertainty = u,
                       !.factual = f] :
                p \in presets, c \in CountSamples, x \in {0, 3, 8},
                u \in {0, 3}, f \in {0, 3}}
       \cup {[p EXCEPT !.meta = m] : p \in presets, m \in MetaSamples}

Contents == {shape @@ counts : shape \in Shapes, counts \in Counts}

InitScorer ==
    /\ InitNoCommand
    /\ \E c \in Contents :
          scored = [pc |-> "structure", content |-> c, Breakdown |-> <<>>, Overall |-> 0]

\* LocalScorer.AnalyzeContent, one statement at a time.
ScoreContentStructure ==
    /\ scored.pc = "structure"
    /\ scored' = [scored EXCEPT
          !.pc = "clarity",
          !.Breakdown = Append(@, analyzeContentStructure(scored.content, scored.content))]
    /\ UNCHANGED <<flags, env, urls, mainPc, cfg, analyzer, resolved, pc, loc, calls,
                   results, semaphore, wg, spinner, writers>>

ScoreSemanticClarity ==
    /\ scored.pc = "clarity"
    /\ scored' = [scored EXCEPT
          !.pc = "richness",
          !.Breakdown = Append(@, analyzeSemanticClarity(scored.content))]
    /\ UNCHANGED <<flags, env, urls, mainPc, cfg, analyzer, resolved, pc, loc, calls,
                   results, semaphore, wg, spinner, writers>>

ScoreContextRichness ==
    /\ scored.pc = "richness"
    /\ scored' = [scored EXCEPT
          !.pc = "authority",
          !.Breakdown = Append(@, analyzeContextRichness(scored.content, scored.content))]
    /\ UNCHANGED <<flags, env, urls, mainPc, cfg, analyzer, resolved, pc, loc, calls,
                   results, semaphore, wg, spinner, writers>>

ScoreAuthoritySignals ==
    /\ scored.pc = "authority"
    /\ scored' = [scored EXCEPT
          !.pc = "accessibility",
          !.Breakdown = Append(@, analyzeAuthoritySignals(scored.content, scored.content))]
    /\ UNCHANGED <<flags, env, urls, mainPc, cfg, analyzer, resolved, pc, loc, calls,
                   results, semaphore, wg, spinner, writers>>

ScoreAccessibility ==
    /\ scored.pc = "accessibility"
    /\ scored' = [scored EXCEPT
          !.pc = "overall",
          !.Breakdown = Append(@, analyzeAccessibility(scored.content, scored.content))]
    /\ UNCHANGED <<flags, env, urls, mainPc, cfg, analyzer, resolved, pc, loc, calls,
                   results, semaphore, wg, spinner, writers>>

\* The five Scores of a breakdown.
Scores(breakdown) == [i \in DOMAIN breakdown |-> breakdown[i].Score]

ScoreOverall ==
    /\ scored.pc = "overall"
    /\ \E fused \in BOOLEAN :
          scored' = [scored EXCEPT
              !.pc = "done",
              !.Overall = calculateOverallScore(Scores(scored.Breakdown), fused)]
    /\ UNCHANGED <<flags, env, urls, mainPc, cfg, analyzer, resolved, pc, loc, calls,
                   results, semaphore, wg, spinner, writers>>

NextScorer ==
    \/ ScoreContentStructure
    \/ ScoreSemanticClarity
    \/ ScoreContextRichness
    \/ ScoreAuthoritySignals
    \/ ScoreAccessibility
    \/ ScoreOverall

SpecScorer == InitScorer /\ [][NextScorer]_vars

\* ------------------------------------------------------------------ scorer: overall score

\* The breakdowns calculateOverallScore is applied to: those of the shape the
\* analyze functions give (any content-structure score, since the paragraph
\* sub-score is any integer up to 25, and multiples of 5 in the other four
\* dimensions, whose sub-scores are all multiples of 5), and every combination of
\* small scores.
MaxAnyScore == 3
FiveSamples == {0, 5, 50, 100}
Breakdowns ==
    {<<a, b, c, d, e>> : a \in 0..MaxScore, b \in FiveSamples, c \in FiveSamples,
                         d \in FiveSamples, e \in FiveSamples}
    \cup [1..5 -> 0..MaxAnyScore]

InitOverall ==
    /\ InitNoCommand
    /\ \E scores \in Breakdowns :
          scored = [pc |-> "calculate", Scores |-> scores, Overall |-> 0]

CalculateOverallScore ==
    /\ scored.pc = "calculate"
    /\ \E fused \in BOOLEAN :
          scored' = [scored EXCEPT !.pc = "done",
                                   !.Overall = calculateOverallScore(scored.Scores, fused)]
    /\ UNCHANGED <<flags, env, urls, mainPc, cfg, analyzer, resolved, pc, loc, calls,
                   results, semaphore, wg, spinner, writers>>

NextOverall == CalculateOverallScore

SpecOverall == InitOverall /\ [][NextOverall]_vars

\* The sum of the weights, as float64 values added in the order of the fields.
RECURSIVE WeightSum(_)
WeightSum(n) == IF n = 0 THEN Float64(0) ELSE FAdd(WeightSum(n - 1), Literal(Weights[n]))

\* ------------------------------------------------------------------ llm package: calls

\* The configurations NewClaudeProvider is called with: nil, and every combination
\* of a missing, malformed or well-formed key, a missing, foreign or supported
\* model, token limits around 0, 1 and 8192, and temperatures around 0 and 1.
KeySamples == {"", "invalid-key", "sk-ant-valid-format"}
ModelSamples == {"", "invalid-model", "gpt-4"} \cup ClaudeValidModels
MaxTokensSamples == {-1, 0, 1, DefaultMaxTokens, ClaudeMaxTokens, ClaudeMaxTokens + 1, 10000}
TemperatureSamples == {-1, 0, TemperatureTenths, 10, 11}
ProviderConfigs ==
    {Nil} \cup [APIKey : KeySamples, Model : ModelSamples, MaxTokens : MaxTokensSamples,
                Temperature : TemperatureSamples]

InitClaude ==
    /\ InitNoCommand
    /\ \E config \in ProviderConfigs :
          scored = [pc |-> "construct", config |-> config, made |-> NoProvider("")]

ConstructClaudeProvider ==
    /\ scored.pc = "construct"
    /\ scored' = [scored EXCEPT !.pc = "done", !.made = NewClaudeProvider(scored.config)]
    /\ UNCHANGED <<flags, env, urls, mainPc, cfg, analyzer, resolved, pc, loc, calls,
                   results, semaphore, wg, spinner, writers>>

NextClaude == ConstructClaudeProvider

SpecClaude == InitClaude /\ [][NextClaude]_vars

\* The ErrorType of the LLMError of provider "claude" that str is the text of.
ClaudeErrorType(str) ==
    CASE HasPrefix(str, "[claude] request: ") -> "request"
      [] HasPrefix(str, "[claude] authentication: ") -> "authentication"
      [] HasPrefix(str, "[claude] model: ") -> "model"
      [] OTHER -> "none"

\* ------------------------------------------------------------------ score extraction: calls

\* The responses extractScoreFromLLMResponse is applied to: a statement of a score,
\* or none, between a sentence before it and one after it that the lower-priority
\* patterns match.
Openings == {"", "75% done. ", "Rating: 150. ", "Total 101, score 20. "}
Statements ==
    {"Overall Score: 84/100", "no numeric content here", "Final rating 101",
     "Total: 0", "Score: 75/100", "rating:  7%", "88/100 overall", "GEO 100%",
     "score 1000", "Overall 084", "OVERALL SCORE:\n9", "overall scores 12"}
Closings == {"", " Score: 42", " 30%"}
Responses == {o \o s \o c : o \in Openings, s \in Statements, c \in Closings}

InitExtract ==
    /\ InitNoCommand
    /\ \E content \in Responses :
          scored = [pc |-> "extract", content |-> content, score |-> 0]

ExtractScore ==
    /\ scored.pc = "extract"
    /\ scored' = [scored EXCEPT !.pc = "done",
                                !.score = extractScoreFromLLMResponse(scored.content)]
    /\ UNCHANGED <<flags, env, urls, mainPc, cfg, analyzer, resolved, pc, loc, calls,
                   results, semaphore, wg, spinner, writers>>

NextExtract == ExtractScore

SpecExtract == InitExtract /\ [][NextExtract]_vars

\* ------------------------------------------------------------------ scorer: headings and paragraphs

\* The pages evaluateHeadingHierarchy is applied to: every sequence of up to
\* MaxHeadings headings of the levels h1 to h6.
MaxHeadings == 3
HeadingLevels == 1..6
HeadingSequences ==
    UNION {[1..n -> HeadingLevels] : n \in 0..MaxHeadings}

InitHeadings ==
    /\ InitNoCommand
    /\ \E headings \in HeadingSequences :
          scored = [pc |-> "headings", headings |-> headings, score |-> 0]

EvaluateHeadings ==
    /\ scored.pc = "headings"
    /\ scored' = [scored EXCEPT !.pc = "done",
                                !.score = evaluateHeadingHierarchy(scored.headings)]
    /\ UNCHANGED <<flags, env, urls, mainPc, cfg, analyzer, resolved, pc, loc, calls,
                   results, semaphore, wg, spinner, writers>>

NextHeadings == EvaluateHeadings

SpecHeadings == InitHeadings /\ [][NextHeadings]_vars

\* The contents evaluateParagraphStructure is applied to, by the number of
\* paragraphs strings.Split(content, "\n\n") gives, at least one and at most
\* MaxParagraphs, and the number of them with 20 to 150 words.
MaxParagraphs == 12
ParagraphCounts ==
    {[paragraphs |-> t, goodParagraphs |-> g] : t \in 1..MaxParagraphs, g \in 0..MaxParagraphs}

InitParagraphs ==
    /\ InitNoCommand
    /\ \E counts \in ParagraphCounts :
          /\ counts.goodParagraphs <= counts.paragraphs
          /\ scored = [pc |-> "paragraphs", paragraphs |-> counts.paragraphs,
                       goodParagraphs |-> counts.goodParagraphs, score |-> 0]

EvaluateParagraphs ==
    /\ scored.pc = "paragraphs"
    /\ scored' = [scored EXCEPT
                     !.pc = "done",
                     !.score = evaluateParagraphStructure(scored.goodParagraphs,
                                                          scored.paragraphs)]
    /\ UNCHANGED <<flags, env, urls, mainPc, cfg, analyzer, resolved, pc, loc, calls,
                   results, semaphore, wg, spinner, writers>>

NextParagraphs == EvaluateParagraphs

SpecParagraphs == InitParagraphs /\ [][NextParagraphs]_vars

\* ------------------------------------------------------------------ analyzer: messages

\* A failed type assertion result.Metadata[key].(int): the key is missing, or its
\* value is no int.
Panic == "panic: interface conversion"
IsInt(metadata, key) == key \in DOMAIN metadata /\ metadata[key] \in Int

\* formatSuccessMessage(result), for the averaged scoring methods; the other
\* methods assert nothing about the metadata.
formatSuccessMessage(result) ==
    LET scoringMethod == IF "scoring_method" \in DOMAIN result.Metadata
                         THEN result.Metadata.scoring_method ELSE "unknown"
    IN IF scoringMethod \in {"hybrid_averaged", "llm_averaged"}
       THEN IF IsInt(result.Metadata, "local_score") /\ IsInt(result.Metadata, "llm_score")
            THEN "Analysis complete! Score: " \o ToString(result.Score)
                     \o "/100 (Local: " \o ToString(result.Metadata.local_score)
                     \o " + AI: " \o ToString(result.Metadata.llm_score) \o ", averaged)"
            ELSE Panic
       ELSE "Analysis complete! Score: " \o ToString(result.Score) \o "/100"

\* ------------------------------------------------------------------ llm package: model selection

\* The --provider, --model and key values model selection and provider
\* construction are applied to: every model one of the lists or one of the
\* constructors names, no model, and two names none of them knows.
ProviderSamples == {"claude", "openai", "gpt", "local"}
ModelNameSamples ==
    {"", "claude-3-sonnet", "gpt-5"} \cup Range(ClaudeModels) \cup Range(OpenAIModels)
        \cup Range(LocalModels) \cup ClaudeValidModels \cup OpenAIValidModels
APIKeySamples == {"", "key", "sk-proj-key", "sk-ant-key"}

InitModels ==
    /\ InitNoCommand
    /\ \E provider \in ProviderSamples, model \in ModelNameSamples, key \in APIKeySamples :
          scored = [pc |-> "select", provider |-> provider, model |-> model,
                    APIKey |-> key, selected |-> [model |-> "", err |-> ""],
                    made |-> NoProvider("")]

\* The command's model selection: ValidateModelForProvider for a given model,
\* GetRecommendedModel for none.
SelectModelStep ==
    /\ scored.pc = "select"
    /\ LET selected == SelectModel(scored.provider, scored.model)
       IN scored' = [scored EXCEPT
                        !.pc = IF selected.err # "" THEN "rejected" ELSE "construct",
                        !.selected = selected]
    /\ UNCHANGED <<flags, env, urls, mainPc, cfg, analyzer, resolved, pc, loc, calls,
                   results, semaphore, wg, spinner, writers>>

\* llm.NewProvider with the ProviderConfig the analyzer builds from the selection.
ConstructProvider ==
    /\ scored.pc = "construct"
    /\ scored' = [scored EXCEPT
                     !.pc = "done",
                     !.made = NewProvider(scored.provider,
                                          [APIKey |-> scored.APIKey,
                                           Model |-> scored.selected.model,
                                           MaxTokens |-> MaxTokens,
                                           Temperature |-> TemperatureTenths])]
    /\ UNCHANGED <<flags, env, urls, mainPc, cfg, analyzer, resolved, pc, loc, calls,
                   results, semaphore, wg, spinner, writers>>

NextModels == SelectModelStep \/ ConstructProvider

SpecModels == InitModels /\ [][NextModels]_vars

\* ------------------------------------------------------------------ properties

\* The workers between their semaphore send and their semaphore receive.
InSection(i) == pc[i] \in {"au_start", "au_scrape", "au_analyze", "au_ret", "w_release"}
Active == {i \in Workers : InSection(i)}

\* C1: ProcessURLs returns exactly one BulkResult per input URL, in input order:
\* whenever it has returned, whatever the order the workers finished in, the output
\* is as long as the input, no slot is nil and slot i carries URL i; and no slot
\* ever holds another URL's result.
C1_OneResultPerURLInOrder ==
    /\ \A i \in DOMAIN results : results[i] # Nil => results[i].URL = urls[i]
    /\ mainPc = "returned" =>
          /\ Len(results) = Len(urls)
          /\ \A i \in 1..Len(urls) : results[i] # Nil /\ results[i].URL = urls[i]

\* C1 witness: a run over two different URLs has returned.
C1_Witness ==
    /\ mainPc = "returned"
    /\ Len(urls) >= 2
    /\ results[1].URL # results[2].URL

\* C2: with a concurrency limit N >= 1, at most N workers are between the semaphore
\* send and receive (the semaphore counts exactly them), so at most N AnalyzeURL
\* calls are active; a worker that has not acquired a slot has fetched nothing.
C2_AtMostNActive ==
    cfg.Concurrent >= 1 =>
        /\ Cardinality(Active) <= cfg.Concurrent
        /\ semaphore = Cardinality(Active)
        /\ \A i \in Workers :
              pc[i] = "w_acquire" => calls[i].AnalyzeURL = 0 /\ calls[i].ScrapeURL = 0

\* C2 witness: the limit is 1, one worker is fetching and another is blocked on the
\* semaphore.
C2_Witness ==
    /\ cfg.Concurrent = 1
    /\ \E i, j \in Workers :
          /\ pc[i] = "au_scrape" /\ calls[i].AnalyzeURL = 1
          /\ pc[j] = "w_acquire"

\* C3: bulkhead isolation. When ProcessURLs has returned (its error is nil), every
\* worker has run AnalyzeURL once, a slot whose analysis failed carries that
\* analysis' error text and no result, and every other slot carries the result its
\* own AnalyzeURL call returned.
C3_Bulkhead ==
    mainPc = "returned" =>
        \A i \in Workers :
            /\ calls[i].AnalyzeURL = 1
            /\ loc[i].err # NoError =>
                  /\ results[i].Error = loc[i].err
                  /\ results[i].Error # ""
                  /\ results[i].Result = Nil
            /\ loc[i].err = NoError =>
                  /\ results[i].Error = ""
                  /\ results[i].Result = loc[i].result
                  /\ results[i].Result # Nil

\* C3 witness: a returned run in which one item failed to fetch and another was
\* analysed.
C3_Witness ==
    /\ mainPc = "returned"
    /\ \E i, j \in Workers :
          /\ results[i].Error # "" /\ calls[i].ScrapeURL = 1 /\ loc[i].page = NoPage
          /\ results[j].Result # Nil

\* C4: every BulkResult has exactly one of Result and Error: Result is non-nil iff
\* Error is empty, in every mode and for every outcome of fetch and analysis.
C4_ExactlyOneOfResultAndError ==
    \A i \in DOMAIN results :
        results[i] # Nil => ((results[i].Result # Nil) <=> (results[i].Error = ""))

\* C4 witness: in llm mode without a provider, a slot carries the stored
\* construction error and no result.
C4_Witness ==
    /\ cfg.Mode = "llm"
    /\ analyzer.initError # ""
    /\ \E i \in DOMAIN results :
          results[i] # Nil /\ results[i].Error = analyzer.initError

\* C5: with a concurrency limit >= 1, a started ProcessURLs eventually returns, and
\* whenever it has returned every worker has written its slot, released the
\* semaphore and finished, so the semaphore is empty.
C5_ReturnsAfterAllWorkers ==
    /\ (mainPc = "constructed" /\ Len(urls) > 0 /\ cfg.Concurrent >= 1)
          ~> (mainPc = "returned")
    /\ [](mainPc = "returned" =>
              /\ semaphore = 0
              /\ wg = 0
              /\ \A i \in Workers : pc[i] = "done" /\ results[i] # Nil)

\* C5 witness: a run with more URLs than semaphore slots has returned.
C5_Witness ==
    /\ mainPc = "returned"
    /\ cfg.Concurrent >= 1
    /\ Len(urls) > cfg.Concurrent
    /\ semaphore = 0

\* C6: the only mutable state two workers share is the output slice: no two workers
\* that hold semaphore slots at the same time have both written the same location
\* outside it (here: the Analyzer's spinner).
C6_OnlyOutputSliceShared ==
    \A i, j \in Workers :
        (i # j /\ InSection(i) /\ InSection(j)) =>
            \A l \in DOMAIN writers : ~(i \in writers[l] /\ j \in writers[l])

\* C7: no retries. A worker calls AnalyzeURL at most once, which fetches at most
\* once and calls Provider.Analyze at most once; once ProcessURLs has returned
\* every URL was analysed exactly once, and a failed item was not tried again.
C7_NoRetries ==
    \A i \in Workers :
        /\ calls[i].AnalyzeURL <= 1 /\ calls[i].ScrapeURL <= 1 /\ calls[i].Analyze <= 1
        /\ calls[i].ScrapeURL <= calls[i].AnalyzeURL
        /\ calls[i].Analyze <= calls[i].ScrapeURL
        /\ mainPc = "returned" => calls[i].AnalyzeURL = 1 /\ calls[i].ScrapeURL = 1

\* C7 witness: a returned run with an item whose fetch failed and one whose
\* provider call failed, each made once.
C7_Witness ==
    /\ mainPc = "returned"
    /\ \E i, j \in Workers :
          /\ results[i].Error # "" /\ calls[i].ScrapeURL = 1 /\ calls[i].Analyze = 0
          /\ results[j].Error # "" /\ calls[j].Analyze = 1

\* Credential validity as the documentation states it: a key with the provider's
\* prefix in the provider's environment variable.
ValidCredential(provider) ==
    CASE provider = "claude" -> HasPrefix(env.CLAUDE_API_KEY, "sk-ant-")
      [] provider \in {"openai", "gpt"} -> HasPrefix(env.OPENAI_API_KEY, "sk-")
      [] OTHER -> FALSE

\* The analysis of thread 0 has returned for content that was obtained.
AnalysedContent == pc[0] \in {"au_ret", "done"} /\ loc[0].page # NoPage

\* C8: whenever the effective mode is local, Provider.Analyze is never invoked, and
\* analysing obtained content returns a result and no error, with the final score
\* equal to the local overall score and scoring method local_only.
C8_LocalNeverInvokesProvider ==
    (mainPc # "cli" /\ cfg.Mode = "local") =>
        /\ calls[0].Analyze = 0
        /\ AnalysedContent =>
              /\ loc[0].err = NoError
              /\ loc[0].result # Nil
              /\ loc[0].result.Score = LocalOverall(loc[0].page)
              /\ loc[0].result.Metadata.scoring_method = "local_only"

\* C8 witness: auto resolved to local although a key variable was set (to a
\* malformed key), and content was analysed.
C8_Witness ==
    /\ flags.mode = "auto"
    /\ cfg.Mode = "local"
    /\ env.OPENAI_API_KEY # ""
    /\ AnalysedContent

C10_AutoDetectionUsesOpenAI ==
    (/\ flags.mode = "auto" /\ flags.provider = "claude" /\ flags.model = ""
     /\ env.CLAUDE_API_KEY = "" /\ ValidCredential("openai")
     /\ mainPc \in {"constructed", "returned"}) =>
        /\ cfg.Mode = "hybrid"
        /\ analyzer.provider # Nil
        /\ analyzer.provider.name = "openai"
        /\ AnalysedContent =>
              /\ calls[0].Analyze = 1
              /\ loc[0].result.Mode = "hybrid"

\* analyzePageData has returned for item t (thread 0 of analyze, a worker of bulk,
\* a file of scan).
Analysed(t) ==
    /\ pc[t] \in {"au_ret", "w_release", "w_done", "done"}
    /\ loc[t].page # NoPage

\* C11: the local provider requires no API key: with provider local and mode auto
\* the credential check succeeds, the mode resolves to hybrid, the local provider
\* is constructed and is asked to analyse the content.
C11_LocalProviderNeedsNoKey ==
    (flags.provider = "local" /\ flags.mode = "auto"
         /\ mainPc \in {"constructed", "returned"}) =>
        /\ resolved = [Mode |-> "hybrid", LLMProvider |-> "local"]
        /\ cfg.Mode = "hybrid"
        /\ analyzer.provider # Nil
        /\ analyzer.provider.name = "local"
        /\ Analysed(0) => calls[0].Analyze = 1

\* C12: in llm mode LLM unavailability is fatal. A requested llm mode stays llm; if
\* the provider's construction failed, every analysis returns the stored
\* construction error and no result and invokes no provider; if Provider.Analyze
\* returns an error, the analysis returns an error and no result.
C12_LLMUnavailabilityIsFatal ==
    (flags.mode = "llm" /\ mainPc \in {"constructed", "returned"}) =>
        /\ cfg.Mode = "llm"
        /\ analyzer.provider = Nil =>
              HasPrefix(analyzer.initError, "failed to initialize LLM provider: ")
        /\ \A t \in Workers :
              calls[t].AnalyzeContent = 1 =>
                  /\ analyzer.provider = Nil =>
                        /\ loc[t].err = analyzer.initError
                        /\ loc[t].result = Nil
                        /\ calls[t].Analyze = 0
                        /\ results[t].Result = Nil
                        /\ results[t].Error # ""
                  /\ (calls[t].Analyze = 1 /\ loc[t].response.err # NoError) =>
                        /\ loc[t].err # NoError
                        /\ loc[t].result = Nil
                        /\ results[t].Result = Nil
                        /\ results[t].Error # ""

\* C12 witness: in llm mode one scan saw the construction error for two files;
\* another, with a provider, saw Provider.Analyze fail.
C12_Witness ==
    /\ cfg.Mode = "llm"
    /\ mainPc = "returned"
    /\ \/ /\ analyzer.provider = Nil
          /\ Len(urls) >= 2
          /\ \A t \in Workers : loc[t].err = analyzer.initError
       \/ /\ analyzer.provider # Nil
          /\ \E t \in Workers : calls[t].Analyze = 1 /\ loc[t].response.err # NoError

\* C13: in hybrid mode, requested or resolved from auto, a provider construction
\* failure is not fatal: the effective mode becomes local, and every later analysis
\* returns a result with mode local, scoring method local_only and the local
\* overall score as its score, without invoking a provider.
C13_HybridDowngradesToLocal ==
    (mainPc \in {"constructed", "returned"} /\ resolved.Mode = "hybrid"
         /\ analyzer.provider = Nil) =>
        /\ cfg.Mode = "local"
        /\ analyzer.initError = ""
        /\ \A t \in Workers :
              calls[t].AnalyzeContent = 1 =>
                  /\ loc[t].err = NoError
                  /\ loc[t].result # Nil
                  /\ loc[t].result.Mode = "local"
                  /\ loc[t].result.Metadata.scoring_method = "local_only"
                  /\ loc[t].result.Score = LocalOverall(loc[t].page)
                  /\ calls[t].Analyze = 0
                  /\ results[t].Result = loc[t].result

\* C13 witness: auto resolved to hybrid, the construction failed, and two files
\* were analysed.
C13_Witness ==
    /\ flags.mode = "auto"
    /\ resolved.Mode = "hybrid"
    /\ analyzer.provider = Nil
    /\ mainPc = "returned"
    /\ Len(urls) >= 2
    /\ \A t \in Workers : calls[t].AnalyzeContent = 1 /\ results[t].Result # Nil

\* C14: in hybrid mode with a live provider whose Analyze call fails, the analysis
\* still succeeds: the score is the local overall score, the scoring method is
\* local_only_fallback and the provider's error text is in the metadata.
C14_HybridProviderErrorFallsBack ==
    \A t \in Workers :
        (cfg.Mode = "hybrid" /\ calls[t].Analyze = 1 /\ loc[t].response.err # NoError) =>
            /\ loc[t].err = NoError
            /\ loc[t].result # Nil
            /\ loc[t].result.Score = LocalOverall(loc[t].page)
            /\ loc[t].result.Metadata.scoring_method = "local_only_fallback"
            /\ loc[t].result.Metadata.llm_error = loc[t].response.err
            /\ results[t].Result = loc[t].result
            /\ results[t].Error = ""

\* C14 witness: a hybrid scan whose provider failed on the HTTP call for a file.
C14_Witness ==
    /\ cfg.Mode = "hybrid"
    /\ \E t \in Workers, e \in AnalyzeErrors :
          /\ calls[t].Analyze = 1
          /\ loc[t].response.err = "[" \o analyzer.provider.name \o "] " \o e
          /\ results[t].Result # Nil

\* The call of analyzePageData by t got a reply from which a score above 0 was
\* extracted, or got a reply from which 0 was.
Averaged(t) ==
    /\ calls[t].Analyze = 1
    /\ loc[t].response.err = NoError
    /\ ExtractedScore[loc[t].response.Content] > 0
NoScore(t) ==
    /\ calls[t].Analyze = 1
    /\ loc[t].response.err = NoError
    /\ ExtractedScore[loc[t].response.Content] = 0

AveragedMethod == IF cfg.Mode = "llm" THEN "llm_averaged" ELSE "hybrid_averaged"

C16_LLMNoScoreFallback ==
    \A t \in Threads :
        (cfg.Mode = "llm" /\ NoScore(t)) =>
            /\ loc[t].err = NoError
            /\ loc[t].result # Nil
            /\ loc[t].result.Score = LocalOverall(loc[t].page)
            /\ loc[t].result.Metadata.scoring_method = "llm_no_score_fallback"
            /\ loc[t].result.Analysis = loc[t].response.Content

\* C16 witness: an llm-mode analysis of a page scoring 29 whose reply holds no number.
C16_Witness ==
    /\ cfg.Mode = "llm"
    /\ NoScore(0)
    /\ loc[0].response.Content = "No numeric content here"
    /\ loc[0].result.Score = 29
    /\ mainPc = "returned"

\* C17: in hybrid mode, when Provider.Analyze succeeds but no score can be extracted,
\* the score stays the local overall score, the scoring method is not set to an
\* averaged value, and the reply's text is appended to the local narrative.
C17_HybridNoScoreKeepsLocal ==
    \A t \in Threads :
        (cfg.Mode = "hybrid" /\ NoScore(t)) =>
            /\ loc[t].err = NoError
            /\ loc[t].result # Nil
            /\ loc[t].result.Score = LocalOverall(loc[t].page)
            /\ "scoring_method" \in DOMAIN loc[t].result.Metadata =>
                  loc[t].result.Metadata.scoring_method
                      \notin {"llm_averaged", "hybrid_averaged"}
            /\ loc[t].result.Analysis =
                  formatLocalAnalysis(LocalOverall(loc[t].page)) \o "\n\n"
                      \o loc[t].response.Content

\* C17 witness: a hybrid analysis of a page scoring 29 whose reply holds no number.
C17_Witness ==
    /\ cfg.Mode = "hybrid"
    /\ NoScore(0)
    /\ loc[0].response.Content = "No numeric content here"
    /\ loc[0].result.Score = 29
    /\ HasPrefix(loc[0].result.Analysis, "=== Local GEO Analysis ===")
    /\ mainPc = "returned"

\* C18: empty content is an error, not a score: whenever the content handed to the
\* analyzer by a scan is empty or only whitespace, AnalyzeContent fails and the
\* file's result carries an error and no locally scored result.
C18_EmptyContentIsAnError ==
    \A t \in Workers :
        (calls[t].AnalyzeContent = 1 /\ IsBlank(loc[t].page.Content)) =>
            /\ loc[t].err # NoError
            /\ loc[t].result = Nil
            /\ results[t].Result = Nil
            /\ results[t].Error # ""

EffectiveModes == {"local", "llm", "hybrid"}

\* C20: auto is resolved before any scoring and never reappears: for every mode asked
\* for (auto, unset, local, llm, hybrid), once the analyzer is constructed the
\* effective mode is one of local, llm and hybrid, it does not change from one
\* analysis to the next, and every result's mode field is that mode.
C20_AutoNeverReappears ==
    /\ [](mainPc \in {"constructed", "returned"} =>
            /\ cfg.Mode \in EffectiveModes
            /\ \A t \in Workers :
                  loc[t].result # Nil =>
                      /\ loc[t].result.Mode \in EffectiveModes
                      /\ loc[t].result.Mode = cfg.Mode
                      /\ results[t].Result.Mode \in EffectiveModes)
    /\ [][(mainPc \in {"constructed", "returned"} => (cfg'.Mode = cfg.Mode))]_vars

\* C20 witness: a scan asked for in auto mode has analysed two files, and both
\* results carry the mode auto was resolved to.
C20_Witness ==
    /\ flags.mode \in {"auto", ""}
    /\ mainPc = "returned"
    /\ Len(urls) >= 2
    /\ cfg.Mode = "hybrid"
    /\ \A t \in Workers : loc[t].result # Nil /\ loc[t].result.Mode = "hybrid"

\* Two float64 values differ by less than 2^-36.
Tolerance == [h |-> 0, m |-> 1, l |-> 0]
Near(x, y) == FLess(x, Plus(y, Tolerance)) /\ FLess(y, Plus(x, Tolerance))

\* C21: for every content and page data, empty content without headings and meta
\* tags included, each dimension's ScoreDetail has MaxScore 100, a Score from 0 to
\* 100 and Percentage = 100*Score/MaxScore within floating tolerance, and the
\* overall local score lies in [0,100].
C21_ScoresWithinBounds ==
    /\ \A i \in DOMAIN scored.Breakdown :
          LET detail == scored.Breakdown[i]
          IN /\ detail.MaxScore = 100
             /\ detail.Score >= 0
             /\ detail.Score <= detail.MaxScore
             /\ Near(detail.Percentage, Float64((100 * detail.Score) \div detail.MaxScore))
    /\ scored.pc = "done" => scored.Overall >= 0 /\ scored.Overall <= 100

\* C21 witness: empty content on a page without headings, meta tags and title has
\* been scored: 10, 25, 15, 30 and 25 in the five dimensions, 20 overall.
C21_Witness ==
    /\ scored.pc = "done"
    /\ scored.content.words = 0
    /\ scored.content.headings = <<>>
    /\ scored.content.meta = NoMeta
    /\ Scores(scored.Breakdown) = <<10, 25, 15, 30, 25>>
    /\ scored.Overall = 20

\* The weighted sum of five scores, as an exact number of hundredths, rounded half
\* away from zero.
RoundedWeightedSum(scores) ==
    (Weights[1] * scores[1] + Weights[2] * scores[2] + Weights[3] * scores[3]
        + Weights[4] * scores[4] + Weights[5] * scores[5] + 50) \div 100

ProducedShape(scores) == \A i \in 2..5 : scores[i] % 5 = 0

FirstClaudeFailure(config) ==
    IF config = Nil THEN "request"
    ELSE IF config.APIKey = "" \/ ~HasPrefix(config.APIKey, "sk-ant-") THEN "authentication"
    ELSE IF config.Model # "" /\ config.Model \notin Range(ClaudeModels) THEN "model"
    ELSE IF config.MaxTokens # 0 /\ config.MaxTokens \notin 1..8192 THEN "request"
    ELSE IF config.Temperature \notin 0..10 THEN "temperature"
    ELSE "none"

\* C23: NewClaudeProvider returns a typed LLMError and no provider when, checked in
\* this order, the config is nil (request), the API key is empty or lacks the
\* sk-ant- prefix (authentication), the model is not a supported Claude model
\* (model), MaxTokens is outside 1..8192 after defaulting 0 to 4000 (request), or
\* Temperature is outside [0,1]; otherwise it returns a provider and no error.
C23_ClaudeConstructorChecks ==
    scored.pc = "done" =>
        LET failure == FirstClaudeFailure(scored.config)
            made == scored.made
        IN IF failure = "none"
           THEN made.provider # Nil /\ made.err = ""
           ELSE /\ made.provider = Nil
                /\ ClaudeErrorType(made.err) # "none"
                /\ failure # "temperature" => ClaudeErrorType(made.err) = failure

\* C23 witness: a config failing both the model check and the MaxTokens check
\* has been refused with a model error.
C23_Witness ==
    /\ scored.pc = "done"
    /\ scored.config # Nil
    /\ scored.config.APIKey = "sk-ant-valid-format"
    /\ scored.config.Model = "invalid-model"
    /\ scored.config.MaxTokens = 10000
    /\ scored.made.provider = Nil
    /\ ClaudeErrorType(scored.made.err) = "model"

\* The integer a pattern captures in the text, -1 when the pattern does not match
\* or its capture is not an integer in [0,100].
Captured(pattern, content) ==
    LET m == FindStringSubmatch(pattern, ToLower(content))
    IN IF m = "" THEN -1 ELSE ScoreInRange(m)

\* C24: extraction tries the three patterns in priority order and returns the first
\* captured integer in [0,100]; a higher-priority pattern wins even when a
\* lower-priority pattern matches earlier in the text; the result is never outside
\* [0,100]; "Overall Score: 84/100" yields 84 and a text without a number yields
\* failure (no score, which the function returns as 0).
C24_ExtractionByPriority ==
    scored.pc = "done" =>
        LET captures == {i \in 1..3 : Captured(i, scored.content) >= 0}
        IN /\ scored.score \in 0..100
           /\ captures = {} => scored.score = 0
           /\ captures # {} =>
                 \E i \in captures :
                    /\ \A j \in captures : i <= j
                    /\ scored.score = Captured(i, scored.content)
           /\ scored.content = "Overall Score: 84/100" => scored.score = 84
           /\ scored.content = "75% done. Overall Score: 84/100" => scored.score = 84
           /\ scored.content = "no numeric content here" => scored.score = 0

\* C24 witness: in "75% done. Overall Score: 84/100 30%" the third pattern matches
\* first in the text and 84, the capture of the first pattern, has been returned.
C24_Witness ==
    /\ scored.pc = "done"
    /\ scored.content = "75% done. Overall Score: 84/100 30%"
    /\ Captured(3, scored.content) = 75
    /\ scored.score = 84

\* C25: a reply stating a score of 0 ("Overall Score: 0/100") counts as a successful
\* extraction: the result is averaged with 0 and the scoring method is llm_averaged
\* or hybrid_averaged, not a fallback.
C25_ZeroScoreIsAveraged ==
    (/\ calls[0].Analyze = 1
     /\ loc[0].response.err = NoError
     /\ loc[0].response.Content = "Overall Score: 0/100") =>
        /\ loc[0].result # Nil
        /\ loc[0].result.Score = Average(LocalOverall(loc[0].page), 0)
        /\ "scoring_method" \in DOMAIN loc[0].result.Metadata
        /\ loc[0].result.Metadata.scoring_method = AveragedMethod

\* C26: for every sequence of heading levels in 1..6 the heading-hierarchy score is
\* +10 for having any heading, +10 if some heading is an H1 and +10 if no heading
\* lies more than one level below the heading before it, capped at 30; the last
\* +10 needs more than one heading, so [H1,H2,H3] scores 30 and a single H1 20.
C26_HeadingHierarchyScore ==
    scored.pc = "done" =>
        LET headings == scored.headings
            any == Len(headings) > 0
            someH1 == \E i \in DOMAIN headings : headings[i] = 1
            noSkip == \A i \in DOMAIN headings :
                          i > 1 => headings[i] - headings[i - 1] <= 1
            sum == (IF any THEN 10 ELSE 0) + (IF someH1 THEN 10 ELSE 0)
                       + (IF Len(headings) > 1 /\ noSkip THEN 10 ELSE 0)
        IN /\ scored.score = (IF sum > 30 THEN 30 ELSE sum)
           /\ headings = <<1, 2, 3>> => scored.score = 30
           /\ headings = <<1>> => scored.score = 20

\* C26 witness: a single H1 has been scored 20.
C26_Witness ==
    /\ scored.pc = "done"
    /\ scored.headings = <<1>>
    /\ scored.score = 20

\* C27 as stated: the paragraph-structure score equals round(25 * g / t), t the
\* number of double-newline-delimited paragraphs and g the number of them with 20
\* to 150 words, for every g <= t with t >= 1.
C27_ParagraphScoreRounds ==
    scored.pc = "done" =>
        scored.score = (50 * scored.goodParagraphs + scored.paragraphs)
                           \div (2 * scored.paragraphs)

\* C27 amended: the paragraph-structure score equals floor(25 * g / t), the
\* fraction dropped, for every g <= t with t >= 1.
C27_ParagraphScoreTruncates ==
    scored.pc = "done" =>
        scored.score = (25 * scored.goodParagraphs) \div scored.paragraphs

\* C27 witness: one good paragraph of two, 12.5, has been scored 12.
C27_Witness ==
    /\ scored.pc = "done"
    /\ scored.paragraphs = 2
    /\ scored.goodParagraphs = 1
    /\ scored.score = 12

\* C28: with a concurrency limit of 0 and at least one URL no worker ever acquires
\* the semaphore, whose channel has no buffer and no receiver, so no output slot is
\* written and ProcessURLs never returns.
C28_ZeroConcurrencyBlocks ==
    (/\ flags.cmd = "bulk"
     /\ flags.concurrent = 0
     /\ Len(urls) >= 1
     /\ mainPc \notin {"cli", "failed"}) =>
        /\ cfg.Concurrent = 0
        /\ mainPc = "constructed"
        /\ semaphore = 0
        /\ wg = Len(urls)
        /\ ~WaitReturns
        /\ \A i \in Workers :
              /\ pc[i] = "w_acquire"
              /\ ~CanSend(semaphore, cfg.Concurrent)
              /\ results[i] = Nil
              /\ calls[i].AnalyzeURL = 0

\* C28 witness: a bulk run of two URLs with --concurrent 0 after ProcessURLs started
\* its two workers, both at the send on the semaphore.
C28_Witness ==
    /\ flags.cmd = "bulk"
    /\ cfg.Concurrent = 0
    /\ Len(urls) = 2
    /\ mainPc = "constructed"
    /\ \A i \in Workers : pc[i] = "w_acquire" /\ results[i] = Nil

\* C29: in every result the analyzer returns, the scoring method is llm_averaged or
\* hybrid_averaged if and only if the metadata holds integer local_score and
\* llm_score entries; then local_score is the local overall score, llm_score is in
\* 1..100 and the final score lies between the two, inclusive; so the type
\* assertions of formatSuccessMessage never fail.
C29_AveragedMetadata ==
    \A t \in Threads :
        loc[t].result # Nil =>
            LET result == loc[t].result
                metadata == result.Metadata
                averaged == /\ "scoring_method" \in DOMAIN metadata
                            /\ metadata.scoring_method \in {"llm_averaged", "hybrid_averaged"}
                entries == IsInt(metadata, "local_score") /\ IsInt(metadata, "llm_score")
            IN /\ averaged <=> entries
               /\ averaged =>
                     LET l == metadata.local_score
                         s == metadata.llm_score
                     IN /\ l = LocalOverall(loc[t].page)
                        /\ s \in 1..100
                        /\ result.Score >= (IF l < s THEN l ELSE s)
                        /\ result.Score <= (IF l < s THEN s ELSE l)
               /\ formatSuccessMessage(result) # Panic

\* C29 witness: a hybrid result averaged from local 29 and extracted 84, holding
\* both entries, and the final score 56 between them.
C29_Witness ==
    /\ loc[0].result # Nil
    /\ cfg.Mode = "hybrid"
    /\ IsInt(loc[0].result.Metadata, "local_score")
    /\ IsInt(loc[0].result.Metadata, "llm_score")
    /\ loc[0].result.Metadata.scoring_method = "hybrid_averaged"
    /\ loc[0].result.Metadata.local_score = 29
    /\ loc[0].result.Metadata.llm_score = 84
    /\ loc[0].result.Score = 56
    /\ formatSuccessMessage(loc[0].result)
          = "Analysis complete! Score: 56/100 (Local: 29 + AI: 84, averaged)"

WellFormedKey(provider, key) ==
    IF provider = "claude" THEN HasPrefix(key, "sk-ant-") ELSE HasPrefix(key, "sk-")

\* C30: every model ValidateModelForProvider accepts for claude or openai, and the
\* model GetRecommendedModel returns for each of them, is accepted by that
\* provider's constructor given a well-formed key and the CLI's MaxTokens 4000 and
\* Temperature 0.7: such a configuration never fails on model or token-limit grounds.
C30_ValidatedModelConstructs ==
    /\ (/\ scored.pc \in {"construct", "done"}
        /\ scored.provider \in {"claude", "openai"}) =>
          \/ scored.model # "" /\ ValidateModelForProvider(scored.provider, scored.model) = ""
                /\ scored.selected.model = scored.model
          \/ scored.model = "" /\ scored.selected.model = GetRecommendedModel(scored.provider)
    /\ (/\ scored.pc = "done"
        /\ scored.provider \in {"claude", "openai"}) =>
          /\ ~HasPrefix(scored.made.err, "[" \o scored.provider \o "] model: ")
          /\ ~HasPrefix(scored.made.err, "[" \o scored.provider \o "] request: ")
          /\ WellFormedKey(scored.provider, scored.APIKey) =>
                /\ scored.made.err = ""
                /\ scored.made.provider # Nil
                /\ scored.made.provider.model = scored.selected.model
                /\ scored.made.provider.maxTokens = MaxTokens

\* C30 witness: gpt-4, whose token limit 4096 is the lowest, has been validated for
\* openai and constructed with MaxTokens 4000.
C30_Witness ==
    /\ scored.pc = "done"
    /\ scored.provider = "openai"
    /\ scored.model = "gpt-4"
    /\ scored.APIKey = "sk-proj-key"
    /\ scored.made.provider # Nil
    /\ scored.made.provider.model = "gpt-4"

====
